---- MODULE Spec2Model ----
(***************************************************************************)
(* A model of Llpc::PipelineContext (llpc/context/llpcPipelineContext.cpp): *)
(* the flattening of the client's resource mapping nodes into the LGC      *)
(* resource node buffer, the Vulkan format table, the GPU target name      *)
(* helpers, the shader hash, the vertex input and colour export            *)
(* translation, and setPipelineState which strings them together.          *)
(*                                                                         *)
(* Pointers into the node buffer are modelled as slot offsets from the     *)
(* buffer base (destTable = 0).  A store outside [0, nodeCount) and a load *)
(* beyond the end of a descriptor range value are undefined behaviour:     *)
(* the model lets the run either stop (pc = "crashed") or go on with the   *)
(* store landing in memory outside the buffer (wild) and the load giving   *)
(* an arbitrary word.                                                      *)
(***************************************************************************)
EXTENDS Integers, Sequences, FiniteSets, TLC

VARIABLES
  pc,                     \* position of the modelled call
  nodes,                  \* shaderInfo->pUserDataNodes (root table, input)
  descriptorRangeValues,  \* shaderInfo->pDescriptorRangeValues (input)
  immutableNodesMap,      \* (set, binding) -> index of the range value it points to
  nodeCount,              \* size of the allocated buffer
  allocUserDataNodes,     \* the buffer: slot -> ResourceNode
  destInnerTable,         \* end of the space still available for inner tables
  stack,                  \* active setUserDataNodesTable calls, innermost last
  wild,                   \* stores that landed outside the buffer: address -> node
  ub,                     \* kinds of undefined behaviour executed so far
  carved,                 \* every inner table view carved so far, in order
  written,                \* every store so far, in order: [addr, path]
  userDataNodes,          \* the view handed to Pipeline::setUserDataNodes
  allocated,              \* the buffer is owned by the live unique_ptr allocUserDataNodes
  format,                 \* mapVkFormat: argument format
  isColorExport,          \* mapVkFormat: argument isColorExport
  fmtResult,              \* mapVkFormat: returned pair
  gfxIp,                  \* GfxIpVersion argument
  gpuName,                \* getGpuNameString: the [out] string, as character codes
  nameAbbr,               \* getGpuNameAbbreviation: returned string
  shaderInfos,            \* stage -> PipelineShaderInfo (getPipelineShaderInfo)
  hashStage,              \* getShaderHashCode: argument stage
  shaderHash,             \* getShaderHashCode: returned ShaderHash
  vertexInput,            \* pVertexInput of the graphics pipeline build info
  bindings,               \* setVertexInputDescriptions: the binding table
  bindingsBeyond,         \* stores that landed beyond the end of the binding table
  descriptions,           \* setVertexInputDescriptions: the gathered vertex inputs
  cbState,                \* cbState of the graphics pipeline build info
  formats,                \* setColorExportState: the colour export formats
  stageMask,              \* getShaderStageMask(): set of Vkgc stage bits
  lgcStageMask,           \* the mask given to setShaderStageMask: set of LGC stages
  buildInfo,              \* the pipeline build info (getPipelineBuildInfo, getPipelineOptions)
  clOpts,                 \* the process-wide command line options
  calls,                  \* the calls made on the lgc::Pipeline object, in order
  callees,                \* the calls made on setUserDataInPipeline and mapVkFormat, in order
  run,                    \* which setPipelineState call is running (0: none)
  firstRun                \* what the first setPipelineState call did

flatVars == <<nodes, descriptorRangeValues, immutableNodesMap, nodeCount,
              allocUserDataNodes, destInnerTable, stack, wild, ub, carved,
              written, userDataNodes, allocated>>
fmtVars == <<format, isColorExport, fmtResult>>
gpuVars == <<gfxIp, gpuName, nameAbbr>>
hashVars == <<shaderInfos, hashStage, shaderHash>>
vtxVars == <<vertexInput, bindings, bindingsBeyond, descriptions>>
cbVars == <<cbState, formats>>
stageVars == <<stageMask, lgcStageMask>>
runVars == <<buildInfo, clOpts, run, firstRun>>
ctxVars == <<hashVars, vtxVars, cbVars, stageVars, runVars>>
vars == <<pc, flatVars, fmtVars, gpuVars, ctxVars, calls, callees>>

\* ------------------------------------------------------------------ bounds

\* Largest number of resource mapping nodes in a forest (all depths).
MaxNodes == 4
\* Largest number of descriptor range values in the immutable-value input.
MaxRangeValues == 2
\* Largest arraySize of a descriptor range value.
MaxArraySize == 2
\* Number of VkFormat codes explored beyond the end of the format table.
MaxFormatBeyond == 2

\* ------------------------------------------------------- resource mapping

Null == "null"

NoInnerTable == [start |-> 0, count |-> 0]

\* immutableValue = nullptr.  A constant array that is built has at least one
\* element, so the empty sequence stands for "no constant".
NoImmutableValue == <<>>

\* A Vkgc::ResourceMappingNode.  The C++ union is spread over three fields;
\* the ones a node type does not use are zero.
MappingNode(type, size, set, binding, pNext, indirect) ==
  [type |-> type, sizeInDwords |-> size, offsetInDwords |-> 0,
   srdRange |-> [set |-> set, binding |-> binding],
   tablePtr |-> [nodeCount |-> Len(pNext), pNext |-> pNext],
   userDataPtr |-> [sizeInDwords |-> indirect]]

TableNode(pNext) == MappingNode("DescriptorTableVaPtr", 1, 0, 0, pNext, 0)
SrdNode(type, size, set, binding) == MappingNode(type, size, set, binding, <<>>, 0)
PtrNode(type, indirect) == MappingNode(type, 1, 0, 0, <<>>, indirect)

\* A value-initialised lgc::ResourceNode (std::make_unique<ResourceNode[]>).
EmptyResourceNode ==
  [type |-> "Unknown", sizeInDwords |-> 0, offsetInDwords |-> 0,
   set |-> 0, binding |-> 0, innerTable |-> NoInnerTable,
   indirectSizeInDwords |-> 0, immutableValue |-> NoImmutableValue]

\* A Vkgc::DescriptorRangeValue: arraySize descriptors whose words are pValue.
RangeValue(set, binding, arraySize, pValue) ==
  [set |-> set, binding |-> binding, arraySize |-> arraySize, pValue |-> pValue]

\* The ways undefined behaviour is entered.
UbStore == "store outside the buffer"
UbLoad == "load beyond pValue"

\* Words an out-of-bounds load of pValue may give.
GarbageWords == {0, 170}

\* --------------------------------------------------- setUserDataInPipeline

\* The map of immutable nodes: operator[] keeps, for each (set, binding), the
\* address of the range value assigned last.  Range values are addressed by
\* their index in descriptorRangeValues.
RECURSIVE InsertRangeValues(_, _, _)
InsertRangeValues(map, values, i) ==
  IF i > Len(values) THEN map
  ELSE InsertRangeValues((<<values[i].set, values[i].binding>> :> i) @@ map, values, i + 1)

BuildImmutableNodesMapFirstWins(values) ==
  [k \in {<<values[i].set, values[i].binding>> : i \in 1..Len(values)} |->
     CHOOSE i \in 1..Len(values) :
       /\ <<values[i].set, values[i].binding>> = k
       /\ \A j \in 1..(i - 1) : <<values[j].set, values[j].binding>> # k]

BuildImmutableNodesMap(values) == InsertRangeValues(<<>>, values, 1)

\* The node count the buffer is allocated with: the root nodes plus, for each
\* root descriptor table, the nodes of that table.
RECURSIVE AddTableNodeCounts(_, _, _)
AddTableNodeCounts(count, table, i) ==
  IF i > Len(table) THEN count
  ELSE AddTableNodeCounts(
         IF table[i].type = "DescriptorTableVaPtr"
           THEN count + table[i].tablePtr.nodeCount ELSE count,
         table, i + 1)

CountUserDataNodes(table) == AddTableNodeCounts(Len(table), table, 1)

\* --------------------------------------------------- setUserDataNodesTable

CarveInnerTableNoMove(cursor, count) == cursor

\* destInnerTable -= node.tablePtr.nodeCount
CarveInnerTable(cursor, count) == cursor - count

\* static_cast<ResourceNodeType>(node.type), DescriptorYCbCrSampler apart.
TranslateNodeType(type) ==
  IF type = "DescriptorYCbCrSampler" THEN "DescriptorYCbCrSampler" ELSE type

SamplerDescriptorSizeAlways4(type) == 4

SamplerDescriptorSize(type) ==
  IF type # "DescriptorYCbCrSampler" THEN 4 ELSE 8

\* immutableNode.pValue[i]; i counts from 0.  g is what a load beyond the
\* array gives.
ReadValueWord(pValue, i, g) == IF i < Len(pValue) THEN pValue[i + 1] ELSE g

CompValuesUnpadded(pValue, compIdx, size, g) ==
  [i \in 1..size |-> ReadValueWord(pValue, compIdx * size + (i - 1), g)]

\* Constant *compValues[8]: the first samplerDescriptorSize words loaded from
\* pValue, the rest zero.
CompValues(pValue, compIdx, size, g) ==
  [i \in 1..8 |->
     IF i - 1 < size THEN ReadValueWord(pValue, compIdx * size + (i - 1), g) ELSE 0]

\* The constant array built for a range value: one <8 x i32> per descriptor;
\* none when arraySize is 0.
ImmutableValue(type, value, g) ==
  IF value.arraySize # 0
    THEN [compIdx \in 1..value.arraySize |->
            CompValues(value.pValue, compIdx - 1, SamplerDescriptorSize(type), g)]
    ELSE NoImmutableValue

\* Whether building the constant for this node loads beyond pValue.
LoadsBeyondValue(node, map, values) ==
  /\ node.type \notin {"DescriptorTableVaPtr", "IndirectUserDataVaPtr", "StreamOutTableVaPtr"}
  /\ <<node.srdRange.set, node.srdRange.binding>> \in DOMAIN map
  /\ LET value == values[map[<<node.srdRange.set, node.srdRange.binding>>]]
     IN value.arraySize * SamplerDescriptorSize(node.type) > Len(value.pValue)

\* The ResourceNode one loop iteration writes for `node`; cursor is
\* destInnerTable after the iteration's own decrement.
TranslateNode(node, cursor, map, values, g) ==
  LET base == [EmptyResourceNode EXCEPT !.sizeInDwords = node.sizeInDwords,
                                        !.offsetInDwords = node.offsetInDwords]
      key == <<node.srdRange.set, node.srdRange.binding>>
  IN CASE node.type = "DescriptorTableVaPtr" ->
            [base EXCEPT !.type = "DescriptorTableVaPtr",
                         !.innerTable = [start |-> cursor,
                                         count |-> node.tablePtr.nodeCount]]
       [] node.type = "IndirectUserDataVaPtr" ->
            [base EXCEPT !.type = "IndirectUserDataVaPtr",
                         !.indirectSizeInDwords = node.userDataPtr.sizeInDwords]
       [] node.type = "StreamOutTableVaPtr" ->
            [base EXCEPT !.type = "StreamOutTableVaPtr",
                         !.indirectSizeInDwords = node.userDataPtr.sizeInDwords]
       [] OTHER ->
            [base EXCEPT !.type = TranslateNodeType(node.type),
                         !.set = node.srdRange.set,
                         !.binding = node.srdRange.binding,
                         !.immutableValue =
                            IF key \in DOMAIN map
                              THEN ImmutableValue(node.type, values[map[key]], g)
                              ELSE NoImmutableValue]

\* ------------------------------------------------------------------ inputs

\* Number of nodes of a forest, all depths.
RECURSIVE TotalNodes(_)
TotalNodes(table) ==
  IF table = <<>> THEN 0
  ELSE 1 + TotalNodes(Head(table).tablePtr.pNext) + TotalNodes(Tail(table))

\* Forests of exactly n nodes: a node without children is one of `leaves` or
\* an empty descriptor table, a node with children is a descriptor table.
RECURSIVE ForestsOf(_, _), TreesOf(_, _)
TreesOf(n, leaves) ==
  IF n = 1 THEN leaves \cup {TableNode(<<>>)}
  ELSE {TableNode(f) : f \in ForestsOf(n - 1, leaves)}

ForestsOf(n, leaves) ==
  IF n = 0 THEN {<<>>}
  ELSE UNION {{<<t>> \o f : t \in TreesOf(k, leaves), f \in ForestsOf(n - k, leaves)} :
              k \in 1..n}

\* The client's layout of a table: offsets follow from the sizes, and an SRD
\* without a key of its own gets the binding `first` + its pre-order number.
RECURSIVE Layout(_, _, _)
Layout(table, offset, first) ==
  IF table = <<>> THEN <<>>
  ELSE LET n == Head(table)
           laid ==
             [n EXCEPT !.offsetInDwords = offset,
                       !.srdRange.binding =
                          IF n.srdRange.binding < 0 THEN first ELSE @,
                       !.tablePtr.pNext = Layout(@, 0, first + 1)]
       IN <<laid>> \o Layout(Tail(table), offset + n.sizeInDwords,
                             first + 1 + TotalNodes(n.tablePtr.pNext))

\* Leaves of the forests the flattening is explored on.
FlattenLeaves ==
  {SrdNode("DescriptorSampler", 4, 0, -1),
   PtrNode("IndirectUserDataVaPtr", 3)}

FlattenForests ==
  {Layout(f, 0, 0) : f \in UNION {ForestsOf(n, FlattenLeaves) : n \in 0..MaxNodes}}

FlattenRangeValues ==
  {<<>>, <<RangeValue(0, 0, 1, <<11, 12, 13, 14>>)>>}

\* ----------------------------------------------------------------- actions

IdleFormat == /\ format = 0 /\ isColorExport = FALSE /\ fmtResult = Null
IdleGpu == /\ gfxIp = Null /\ gpuName = <<>> /\ nameAbbr = Null

NoHash == [lower |-> 0, upper |-> 0]
NoVertexInput ==
  [present |-> FALSE, bindings |-> <<>>, hasDivisors |-> FALSE,
   divisors |-> <<>>, attributes |-> <<>>]
NoCbState ==
  [alphaToCoverageEnable |-> FALSE, dualSourceBlendEnable |-> FALSE, target |-> <<>>]
NoRun == [calls |-> <<>>, pc |-> "none"]
NoBuildInfo == [graphics |-> FALSE]
\* Unsigned 32-bit values are kept as their 32-bit patterns: 0xFFFFFFFF is the
\* pattern of -1.
UINT_MAX == -1
MaxScalarThreshold == -1

\* The options as cl::init leaves them.
DefaultClOpts ==
  [EnablePipelineDump |-> FALSE, EnableOuts |-> FALSE, IncludeLlvmIr |-> FALSE,
   VgprLimit |-> 0, SgprLimit |-> 0, WavesPerEu |-> 0, EnableScalarLoad |-> FALSE,
   ScalarThreshold |-> MaxScalarThreshold, EnableSiScheduler |-> FALSE, SubgroupSize |-> 64]

IdleHash == /\ shaderInfos = <<>> /\ hashStage = 0 /\ shaderHash = NoHash
IdleVertexInput ==
  /\ vertexInput = NoVertexInput
  /\ bindings = <<>>
  /\ bindingsBeyond = <<>>
  /\ descriptions = <<>>
IdleColorExport == /\ cbState = NoCbState /\ formats = <<>>
IdleStages == /\ stageMask = {} /\ lgcStageMask = {}
IdleRun ==
  /\ buildInfo = NoBuildInfo
  /\ clOpts = DefaultClOpts
  /\ calls = <<>>
  /\ callees = <<>>
  /\ run = 0
  /\ firstRun = NoRun
IdleContext ==
  /\ IdleHash /\ IdleVertexInput /\ IdleColorExport /\ IdleStages /\ IdleRun

InitFlatten(forests, rangeValues) ==
  /\ pc = "start"
  /\ nodes \in forests
  /\ descriptorRangeValues \in rangeValues
  /\ immutableNodesMap = <<>>
  /\ nodeCount = 0
  /\ allocUserDataNodes = <<>>
  /\ destInnerTable = 0
  /\ stack = <<>>
  /\ wild = <<>>
  /\ ub = {}
  /\ carved = <<>>
  /\ written = <<>>
  /\ userDataNodes = [given |-> FALSE, start |-> 0, count |-> 0]
  /\ allocated = FALSE
  /\ IdleFormat
  /\ IdleGpu
  /\ IdleContext

Init == InitFlatten(FlattenForests, FlattenRangeValues)

\* setUserDataInPipeline up to its call of setUserDataNodesTable: build the
\* map of immutable nodes, count the nodes, allocate the buffer and set the
\* two cursors (destTable is slot 0).
SetUserDataInPipelineBegin ==
  /\ pc = "start"
  /\ immutableNodesMap' = BuildImmutableNodesMap(descriptorRangeValues)
  /\ nodeCount' = CountUserDataNodes(nodes)
  /\ allocUserDataNodes' = [slot \in 0..(nodeCount' - 1) |-> EmptyResourceNode]
  /\ destInnerTable' = 0 + nodeCount'
  /\ stack' = <<[nodes |-> nodes, destTable |-> 0, idx |-> 0, path |-> <<>>]>>
  /\ allocated' = TRUE
  /\ pc' = "copy"
  /\ UNCHANGED <<nodes, descriptorRangeValues, wild, ub, carved, written,
                 userDataNodes, fmtVars, gpuVars, ctxVars, calls, callees>>

\* One iteration of the loop of setUserDataNodesTable in the innermost call.
\* A descriptor table carves its inner table below destInnerTable and the
\* recursive call starts; the caller's loop goes on when that call returns.
SetUserDataNodesTable ==
  /\ pc = "copy"
  /\ stack # <<>>
  /\ LET top == stack[Len(stack)]
         up == SubSeq(stack, 1, Len(stack) - 1)
     IN /\ top.idx # Len(top.nodes)
        /\ LET node == top.nodes[top.idx + 1]
               addr == top.destTable + top.idx
               isTable == node.type = "DescriptorTableVaPtr"
               cursor == IF isTable
                           THEN CarveInnerTable(destInnerTable, node.tablePtr.nodeCount)
                           ELSE destInnerTable
               badLoad == LoadsBeyondValue(node, immutableNodesMap, descriptorRangeValues)
               badStore == addr \notin 0..(nodeCount - 1)
               path == Append(top.path, top.idx)
               next == [top EXCEPT !.idx = @ + 1]
           IN /\ ub' = ub \cup (IF badLoad THEN {UbLoad} ELSE {})
                          \cup (IF badStore THEN {UbStore} ELSE {})
              /\ \/ /\ badLoad \/ badStore
                    /\ pc' = "crashed"
                    /\ UNCHANGED <<allocUserDataNodes, destInnerTable, stack, wild,
                                   carved, written>>
                 \/ \E g \in (IF badLoad THEN GarbageWords ELSE {0}) :
                      LET destNode == TranslateNode(node, cursor, immutableNodesMap,
                                                    descriptorRangeValues, g)
                      IN /\ pc' = "copy"
                         /\ destInnerTable' = cursor
                         /\ IF badStore
                              THEN /\ wild' = (addr :> destNode) @@ wild
                                   /\ UNCHANGED allocUserDataNodes
                              ELSE /\ allocUserDataNodes' =
                                        [allocUserDataNodes EXCEPT ![addr] = destNode]
                                   /\ UNCHANGED wild
                         /\ written' = Append(written, [addr |-> addr, path |-> path])
                         /\ carved' = IF isTable
                                        THEN Append(carved, [start |-> cursor,
                                                             count |-> node.tablePtr.nodeCount,
                                                             path |-> path])
                                        ELSE carved
                         /\ stack' = IF isTable
                                       THEN up \o <<next,
                                                    [nodes |-> node.tablePtr.pNext,
                                                     destTable |-> cursor,
                                                     idx |-> 0, path |-> path]>>
                                       ELSE up \o <<next>>
  /\ UNCHANGED <<nodes, descriptorRangeValues, immutableNodesMap, nodeCount,
                 userDataNodes, allocated, fmtVars, gpuVars, ctxVars, calls, callees>>

\* The loop of the innermost setUserDataNodesTable call ends and the call
\* returns; the outermost call returns to setUserDataInPipeline.
SetUserDataNodesTableReturn ==
  /\ pc = "copy"
  /\ stack # <<>>
  /\ stack[Len(stack)].idx = Len(stack[Len(stack)].nodes)
  /\ stack' = SubSeq(stack, 1, Len(stack) - 1)
  /\ pc' = IF Len(stack) = 1 THEN "assert" ELSE "copy"
  /\ UNCHANGED <<nodes, descriptorRangeValues, immutableNodesMap, nodeCount,
                 allocUserDataNodes, destInnerTable, wild, ub, carved, written,
                 userDataNodes, allocated, fmtVars, gpuVars, ctxVars, calls, callees>>

\* assert(destInnerTable == destTable + nodes.size()), then the root view goes
\* to Pipeline::setUserDataNodes, and the function returns: the unique_ptr
\* allocUserDataNodes goes out of scope and releases the buffer.  A build with
\* NDEBUG has no assert.
SetUserDataInPipelineEnd ==
  /\ pc = "assert"
  /\ \/ /\ destInnerTable # 0 + Len(nodes)
        /\ pc' = "assertFailed"
        /\ UNCHANGED <<userDataNodes, allocated, calls>>
     \/ /\ pc' = "done"
        /\ userDataNodes' = [given |-> TRUE, start |-> 0, count |-> Len(nodes)]
        /\ calls' = Append(calls, <<"setUserDataNodes", userDataNodes'>>)
        /\ allocated' = FALSE
  /\ UNCHANGED <<nodes, descriptorRangeValues, immutableNodesMap, nodeCount,
                 allocUserDataNodes, destInnerTable, stack, wild, ub, carved,
                 written, fmtVars, gpuVars, ctxVars, callees>>

NextFlatten ==
  \/ SetUserDataInPipelineBegin
  \/ SetUserDataNodesTable
  \/ SetUserDataNodesTableReturn
  \/ SetUserDataInPipelineEnd

Next == NextFlatten

Spec == Init /\ [][Next]_vars

\* ------------------------------------------- immutable values: exploration

ImmutableKeys == {<<2, 5>>, <<0, 1>>}

ImmutableTypes == {"DescriptorSampler", "DescriptorYCbCrSampler", "DescriptorCombinedTexture"}

\* The raw words of a range value: word i is 16 + i.
RawWords(len) == [i \in 1..len |-> 16 + i]

\* Range values: arraySize 0 with no words, or arraySize n with 4 or 8 words
\* per descriptor.
ImmutableRangeValues ==
  {RangeValue(k[1], k[2], 0, <<>>) : k \in ImmutableKeys}
    \cup {RangeValue(k[1], k[2], n, RawWords(stride * n)) :
            k \in ImmutableKeys, n \in 1..MaxArraySize, stride \in {4, 8}}

RECURSIVE SeqsUpTo(_, _)
SeqsUpTo(S, n) ==
  IF n = 0 THEN {<<>>}
  ELSE {<<>>} \cup {<<x>> \o q : x \in S, q \in SeqsUpTo(S, n - 1)}

ImmutableForests ==
  {Layout(<<SrdNode(t, 4, k[1], k[2])>>, 0, 0) : t \in ImmutableTypes, k \in ImmutableKeys}
    \cup {Layout(<<TableNode(<<SrdNode(t, 4, k[1], k[2])>>)>>, 0, 0) :
            t \in ImmutableTypes, k \in ImmutableKeys}
    \cup {Layout(<<TableNode(<<TableNode(<<SrdNode(t, 4, 2, 5), SrdNode(t, 4, 0, 1)>>)>>)>>, 0, 0) :
            t \in {"DescriptorSampler", "DescriptorYCbCrSampler"}}

InitImmutable ==
  InitFlatten(ImmutableForests, SeqsUpTo(ImmutableRangeValues, MaxRangeValues))

SpecImmutable == InitImmutable /\ [][Next]_vars

\* ------------------------------------------------------------- flattening

\* The resolved nodes in memory: the written slots of the buffer and the
\* stores that landed outside it.
ResolvedCells ==
  {[addr |-> a, node |-> allocUserDataNodes[a]] :
      a \in {b \in DOMAIN allocUserDataNodes : allocUserDataNodes[b].type # "Unknown"}}
    \cup {[addr |-> a, node |-> wild[a]] : a \in DOMAIN wild}

ViewSlots(view) == view.start .. (view.start + view.count - 1)

Finished == pc \in {"assert", "done", "assertFailed"}

\* C1 (as claimed): the buffer is allocated with one slot per binding node of
\* the forest, all depths counted, and a finished flattening has stored exactly
\* one resolved node per binding node.
C1_OneSlotPerBindingNode ==
  /\ pc # "start" => nodeCount = TotalNodes(nodes)
  /\ Finished => /\ Len(written) = TotalNodes(nodes)
                 /\ \A i, j \in DOMAIN written :
                      written[i].path = written[j].path => i = j

\* C2 (as claimed): during and after the flattening the backward cursor is
\* never below the buffer base, every inner table view lies inside
\* [base, base + nodeCount), and no resolved node is stored outside the buffer.
C2_ViewsInsideBuffer ==
  pc # "start" =>
    /\ destInnerTable >= 0
    /\ \A i \in DOMAIN carved : ViewSlots(carved[i]) \subseteq 0..(nodeCount - 1)
    /\ \A c \in ResolvedCells :
         /\ c.addr \in 0..(nodeCount - 1)
         /\ ViewSlots(c.node.innerTable) \subseteq 0..(nodeCount - 1)
    /\ \A i \in DOMAIN written : written[i].addr \in 0..(nodeCount - 1)

\* C3: the inner table views of two distinct descriptor table nodes never
\* share a slot: neither two views carved during the flattening, nor the views
\* of two table nodes held in memory.
C3_InnerTablesDisjoint ==
  /\ \A i, j \in DOMAIN carved :
       i # j => ViewSlots(carved[i]) \cap ViewSlots(carved[j]) = {}
  /\ \A c, d \in ResolvedCells :
       c.addr # d.addr =>
         ViewSlots(c.node.innerTable) \cap ViewSlots(d.node.innerTable) = {}

\* C3 witness: a flattening without undefined behaviour ended with two sibling
\* root tables in the buffer, each with children.
C3_Witness ==
  /\ pc = "done"
  /\ ub = {}
  /\ \E c, d \in ResolvedCells :
       /\ c.addr # d.addr
       /\ {c.addr, d.addr} \subseteq 0..(Len(nodes) - 1)
       /\ c.node.innerTable.count >= 1
       /\ d.node.innerTable.count >= 1

\* -------------------------------------------------------- immutable values

IsSrd(type) ==
  type \notin {"Unknown", "DescriptorTableVaPtr", "IndirectUserDataVaPtr", "StreamOutTableVaPtr"}

\* The resolved SRD nodes in memory.
ResolvedSrds == {c.node : c \in {d \in ResolvedCells : IsSrd(d.node.type)}}

ValuesWithKey(set, binding) ==
  {i \in DOMAIN descriptorRangeValues :
     /\ descriptorRangeValues[i].set = set
     /\ descriptorRangeValues[i].binding = binding}

\* The range value the lookup finds for a key: the last one of the input with
\* that key.
HasValue(r) == ValuesWithKey(r.set, r.binding) # {}
FoundValue(r) ==
  descriptorRangeValues[CHOOSE i \in ValuesWithKey(r.set, r.binding) :
                          \A j \in ValuesWithKey(r.set, r.binding) : j <= i]

\* C4 (as claimed): the constant of a non-YCbCr SRD whose key has a range
\* value of arraySize n >= 1 has n elements, each exactly the 4 raw words of
\* that element.
C4_ElementIsFourRawWords ==
  \A r \in ResolvedSrds :
    (r.type # "DescriptorYCbCrSampler" /\ HasValue(r) /\ FoundValue(r).arraySize >= 1) =>
      /\ r.immutableValue # NoImmutableValue
      /\ Len(r.immutableValue) = FoundValue(r).arraySize
      /\ \A c \in DOMAIN r.immutableValue :
           r.immutableValue[c] = SubSeq(FoundValue(r).pValue, 4 * (c - 1) + 1, 4 * c)

\* C4 (amended): the constant of a non-YCbCr SRD whose key has a range value
\* of arraySize n >= 1 has n elements, each 8 words wide: the 4 raw words of
\* that element followed by 4 zero words.
C4_ElementIsFourRawWordsPadded ==
  \A r \in ResolvedSrds :
    (r.type # "DescriptorYCbCrSampler" /\ HasValue(r) /\ FoundValue(r).arraySize >= 1) =>
      /\ r.immutableValue # NoImmutableValue
      /\ Len(r.immutableValue) = FoundValue(r).arraySize
      /\ \A c \in DOMAIN r.immutableValue :
           r.immutableValue[c] =
             SubSeq(FoundValue(r).pValue, 4 * (c - 1) + 1, 4 * c) \o <<0, 0, 0, 0>>

\* C4 witness: a finished flattening holds a sampler whose constant has two
\* elements.
C4_Witness ==
  /\ pc = "done"
  /\ \E r \in ResolvedSrds :
       /\ r.type = "DescriptorSampler"
       /\ HasValue(r)
       /\ FoundValue(r).arraySize = 2
       /\ r.immutableValue # NoImmutableValue

C6_ConstantIffSomeValue ==
  \A r \in ResolvedSrds :
    r.immutableValue # NoImmutableValue <=>
      \E i \in ValuesWithKey(r.set, r.binding) : descriptorRangeValues[i].arraySize # 0

\* C6 (amended): a resolved SRD has a constant iff the last range value of the
\* input with its (set, binding) has arraySize # 0.
C6_ConstantIffLastValue ==
  \A r \in ResolvedSrds :
    r.immutableValue # NoImmutableValue <=> (HasValue(r) /\ FoundValue(r).arraySize # 0)

\* C6 witness: a finished flattening where the key of a resolved SRD has two
\* range values, the first with arraySize 0 and the last with arraySize # 0.
C6_Witness ==
  /\ pc = "done"
  /\ \E r \in ResolvedSrds :
       /\ Cardinality(ValuesWithKey(r.set, r.binding)) = 2
       /\ \E i \in ValuesWithKey(r.set, r.binding) : descriptorRangeValues[i].arraySize = 0
       /\ FoundValue(r).arraySize # 0
       /\ r.immutableValue # NoImmutableValue

\* -------------------------------------------------------------- mapVkFormat

\* FormatEntry rows, as the four macros build them.
INVALID_FORMAT_ENTRY(vkFormat) ==
  [format |-> vkFormat, dfmt |-> "BufDataFormatInvalid", nfmt |-> "BufNumFormatUnorm",
   validVertexFormat |-> FALSE, validExportFormat |-> FALSE]

VERTEX_FORMAT_ENTRY(vkFormat, dfmt, nfmt) ==
  [format |-> vkFormat, dfmt |-> dfmt, nfmt |-> nfmt,
   validVertexFormat |-> TRUE, validExportFormat |-> FALSE]

ColorFormatEntryAlsoVertex(vkFormat, dfmt, nfmt) ==
  [format |-> vkFormat, dfmt |-> dfmt, nfmt |-> nfmt,
   validVertexFormat |-> TRUE, validExportFormat |-> TRUE]

COLOR_FORMAT_ENTRY(vkFormat, dfmt, nfmt) ==
  [format |-> vkFormat, dfmt |-> dfmt, nfmt |-> nfmt,
   validVertexFormat |-> FALSE, validExportFormat |-> TRUE]

BOTH_FORMAT_ENTRY(vkFormat, dfmt, nfmt) ==
  [format |-> vkFormat, dfmt |-> dfmt, nfmt |-> nfmt,
   validVertexFormat |-> TRUE, validExportFormat |-> TRUE]

\* The table, row by row; the row of VkFormat code c is FormatTable[c + 1]
\* (assert(format == FormatTable[format].format)).
FormatTable ==
  <<INVALID_FORMAT_ENTRY("VK_FORMAT_UNDEFINED"),
    COLOR_FORMAT_ENTRY("VK_FORMAT_R4G4_UNORM_PACK8", "BufDataFormat4_4", "BufNumFormatUnorm"),
    COLOR_FORMAT_ENTRY("VK_FORMAT_R4G4B4A4_UNORM_PACK16", "BufDataFormat4_4_4_4", "BufNumFormatUnorm"),
    COLOR_FORMAT_ENTRY("VK_FORMAT_B4G4R4A4_UNORM_PACK16", "BufDataFormat4_4_4_4_Bgra", "BufNumFormatUnorm"),
    COLOR_FORMAT_ENTRY("VK_FORMAT_R5G6B5_UNORM_PACK16", "BufDataFormat5_6_5", "BufNumFormatUnorm"),
    COLOR_FORMAT_ENTRY("VK_FORMAT_B5G6R5_UNORM_PACK16", "BufDataFormat5_6_5_Bgr", "BufNumFormatUnorm"),
    COLOR_FORMAT_ENTRY("VK_FORMAT_R5G5B5A1_UNORM_PACK16", "BufDataFormat5_6_5_1", "BufNumFormatUnorm"),
    COLOR_FORMAT_ENTRY("VK_FORMAT_B5G5R5A1_UNORM_PACK16", "BufDataFormat5_6_5_1_Bgra", "BufNumFormatUnorm"),
    COLOR_FORMAT_ENTRY("VK_FORMAT_A1R5G5B5_UNORM_PACK16", "BufDataFormat1_5_6_5", "BufNumFormatUnorm"),
    BOTH_FORMAT_ENTRY("VK_FORMAT_R8_UNORM", "BufDataFormat8", "BufNumFormatUnorm"),
    BOTH_FORMAT_ENTRY("VK_FORMAT_R8_SNORM", "BufDataFormat8", "BufNumFormatSnorm"),
    BOTH_FORMAT_ENTRY("VK_FORMAT_R8_USCALED", "BufDataFormat8", "BufNumFormatUscaled"),
    BOTH_FORMAT_ENTRY("VK_FORMAT_R8_SSCALED", "BufDataFormat8", "BufNumFormatSscaled"),
    BOTH_FORMAT_ENTRY("VK_FORMAT_R8_UINT", "BufDataFormat8", "BufNumFormatUint"),
    BOTH_FORMAT_ENTRY("VK_FORMAT_R8_SINT", "BufDataFormat8", "BufNumFormatSint"),
    COLOR_FORMAT_ENTRY("VK_FORMAT_R8_SRGB", "BufDataFormat8", "BufNumFormatSrgb"),
    BOTH_FORMAT_ENTRY("VK_FORMAT_R8G8_UNORM", "BufDataFormat8_8", "BufNumFormatUnorm"),
    BOTH_FORMAT_ENTRY("VK_FORMAT_R8G8_SNORM", "BufDataFormat8_8", "BufNumFormatSnorm"),
    BOTH_FORMAT_ENTRY("VK_FORMAT_R8G8_USCALED", "BufDataFormat8_8", "BufNumFormatUscaled"),
    BOTH_FORMAT_ENTRY("VK_FORMAT_R8G8_SSCALED", "BufDataFormat8_8", "BufNumFormatSscaled"),
    BOTH_FORMAT_ENTRY("VK_FORMAT_R8G8_UINT", "BufDataFormat8_8", "BufNumFormatUint"),
    BOTH_FORMAT_ENTRY("VK_FORMAT_R8G8_SINT", "BufDataFormat8_8", "BufNumFormatSint"),
    COLOR_FORMAT_ENTRY("VK_FORMAT_R8G8_SRGB", "BufDataFormat8_8", "BufNumFormatSrgb"),
    COLOR_FORMAT_ENTRY("VK_FORMAT_R8G8B8_UNORM", "BufDataFormat8_8_8", "BufNumFormatUnorm"),
    COLOR_FORMAT_ENTRY("VK_FORMAT_R8G8B8_SNORM", "BufDataFormat8_8_8", "BufNumFormatSnorm"),
    COLOR_FORMAT_ENTRY("VK_FORMAT_R8G8B8_USCALED", "BufDataFormat8_8_8", "BufNumFormatUscaled"),
    COLOR_FORMAT_ENTRY("VK_FORMAT_R8G8B8_SSCALED", "BufDataFormat8_8_8", "BufNumFormatSscaled"),
    COLOR_FORMAT_ENTRY("VK_FORMAT_R8G8B8_UINT", "BufDataFormat8_8_8", "BufNumFormatUint"),
    COLOR_FORMAT_ENTRY("VK_FORMAT_R8G8B8_SINT", "BufDataFormat8_8_8", "BufNumFormatSint"),
    COLOR_FORMAT_ENTRY("VK_FORMAT_R8G8B8_SRGB", "BufDataFormat8_8_8", "BufNumFormatSrgb"),
    COLOR_FORMAT_ENTRY("VK_FORMAT_B8G8R8_UNORM", "BufDataFormat8_8_8_Bgr", "BufNumFormatUnorm"),
    COLOR_FORMAT_ENTRY("VK_FORMAT_B8G8R8_SNORM", "BufDataFormat8_8_8_Bgr", "BufNumFormatSnorm"),
    COLOR_FORMAT_ENTRY("VK_FORMAT_B8G8R8_USCALED", "BufDataFormat8_8_8_Bgr", "BufNumFormatUscaled"),
    COLOR_FORMAT_ENTRY("VK_FORMAT_B8G8R8_SSCALED", "BufDataFormat8_8_8_Bgr", "BufNumFormatSscaled"),
    COLOR_FORMAT_ENTRY("VK_FORMAT_B8G8R8_UINT", "BufDataFormat8_8_8_Bgr", "BufNumFormatUint"),
    COLOR_FORMAT_ENTRY("VK_FORMAT_B8G8R8_SINT", "BufDataFormat8_8_8_Bgr", "BufNumFormatSint"),
    COLOR_FORMAT_ENTRY("VK_FORMAT_B8G8R8_SRGB", "BufDataFormat8_8_8_Bgr", "BufNumFormatSrgb"),
    BOTH_FORMAT_ENTRY("VK_FORMAT_R8G8B8A8_UNORM", "BufDataFormat8_8_8_8", "BufNumFormatUnorm"),
    BOTH_FORMAT_ENTRY("VK_FORMAT_R8G8B8A8_SNORM", "BufDataFormat8_8_8_8", "BufNumFormatSnorm"),
    BOTH_FORMAT_ENTRY("VK_FORMAT_R8G8B8A8_USCALED", "BufDataFormat8_8_8_8", "BufNumFormatUscaled"),
    BOTH_FORMAT_ENTRY("VK_FORMAT_R8G8B8A8_SSCALED", "BufDataFormat8_8_8_8", "BufNumFormatSscaled"),
    BOTH_FORMAT_ENTRY("VK_FORMAT_R8G8B8A8_UINT", "BufDataFormat8_8_8_8", "BufNumFormatUint"),
    BOTH_FORMAT_ENTRY("VK_FORMAT_R8G8B8A8_SINT", "BufDataFormat8_8_8_8", "BufNumFormatSint"),
    COLOR_FORMAT_ENTRY("VK_FORMAT_R8G8B8A8_SRGB", "BufDataFormat8_8_8_8", "BufNumFormatSrgb"),
    BOTH_FORMAT_ENTRY("VK_FORMAT_B8G8R8A8_UNORM", "BufDataFormat8_8_8_8_Bgra", "BufNumFormatUnorm"),
    BOTH_FORMAT_ENTRY("VK_FORMAT_B8G8R8A8_SNORM", "BufDataFormat8_8_8_8_Bgra", "BufNumFormatSnorm"),
    BOTH_FORMAT_ENTRY("VK_FORMAT_B8G8R8A8_USCALED", "BufDataFormat8_8_8_8_Bgra", "BufNumFormatUscaled"),
    BOTH_FORMAT_ENTRY("VK_FORMAT_B8G8R8A8_SSCALED", "BufDataFormat8_8_8_8_Bgra", "BufNumFormatSscaled"),
    BOTH_FORMAT_ENTRY("VK_FORMAT_B8G8R8A8_UINT", "BufDataFormat8_8_8_8_Bgra", "BufNumFormatUint"),
    BOTH_FORMAT_ENTRY("VK_FORMAT_B8G8R8A8_SINT", "BufDataFormat8_8_8_8_Bgra", "BufNumFormatSint"),
    COLOR_FORMAT_ENTRY("VK_FORMAT_B8G8R8A8_SRGB", "BufDataFormat8_8_8_8_Bgra", "BufNumFormatSrgb"),
    BOTH_FORMAT_ENTRY("VK_FORMAT_A8B8G8R8_UNORM_PACK32", "BufDataFormat8_8_8_8", "BufNumFormatUnorm"),
    BOTH_FORMAT_ENTRY("VK_FORMAT_A8B8G8R8_SNORM_PACK32", "BufDataFormat8_8_8_8", "BufNumFormatSnorm"),
    BOTH_FORMAT_ENTRY("VK_FORMAT_A8B8G8R8_USCALED_PACK32", "BufDataFormat8_8_8_8", "BufNumFormatUscaled"),
    BOTH_FORMAT_ENTRY("VK_FORMAT_A8B8G8R8_SSCALED_PACK32", "BufDataFormat8_8_8_8", "BufNumFormatSscaled"),
    BOTH_FORMAT_ENTRY("VK_FORMAT_A8B8G8R8_UINT_PACK32", "BufDataFormat8_8_8_8", "BufNumFormatUint"),
    BOTH_FORMAT_ENTRY("VK_FORMAT_A8B8G8R8_SINT_PACK32", "BufDataFormat8_8_8_8", "BufNumFormatSint"),
    COLOR_FORMAT_ENTRY("VK_FORMAT_A8B8G8R8_SRGB_PACK32", "BufDataFormat8_8_8_8", "BufNumFormatSrgb"),
    BOTH_FORMAT_ENTRY("VK_FORMAT_A2R10G10B10_UNORM_PACK32", "BufDataFormat2_10_10_10_Bgra", "BufNumFormatUnorm"),
    BOTH_FORMAT_ENTRY("VK_FORMAT_A2R10G10B10_SNORM_PACK32", "BufDataFormat2_10_10_10_Bgra", "BufNumFormatSnorm"),
    BOTH_FORMAT_ENTRY("VK_FORMAT_A2R10G10B10_USCALED_PACK32", "BufDataFormat2_10_10_10_Bgra", "BufNumFormatUscaled"),
    BOTH_FORMAT_ENTRY("VK_FORMAT_A2R10G10B10_SSCALED_PACK32", "BufDataFormat2_10_10_10_Bgra", "BufNumFormatSscaled"),
    BOTH_FORMAT_ENTRY("VK_FORMAT_A2R10G10B10_UINT_PACK32", "BufDataFormat2_10_10_10_Bgra", "BufNumFormatUint"),
    BOTH_FORMAT_ENTRY("VK_FORMAT_A2R10G10B10_SINT_PACK32", "BufDataFormat2_10_10_10_Bgra", "BufNumFormatSint"),
    BOTH_FORMAT_ENTRY("VK_FORMAT_A2B10G10R10_UNORM_PACK32", "BufDataFormat2_10_10_10", "BufNumFormatUnorm"),
    VERTEX_FORMAT_ENTRY("VK_FORMAT_A2B10G10R10_SNORM_PACK32", "BufDataFormat2_10_10_10", "BufNumFormatSnorm"),
    BOTH_FORMAT_ENTRY("VK_FORMAT_A2B10G10R10_USCALED_PACK32", "BufDataFormat2_10_10_10", "BufNumFormatUscaled"),
    VERTEX_FORMAT_ENTRY("VK_FORMAT_A2B10G10R10_SSCALED_PACK32", "BufDataFormat2_10_10_10", "BufNumFormatSscaled"),
    BOTH_FORMAT_ENTRY("VK_FORMAT_A2B10G10R10_UINT_PACK32", "BufDataFormat2_10_10_10", "BufNumFormatUint"),
    VERTEX_FORMAT_ENTRY("VK_FORMAT_A2B10G10R10_SINT_PACK32", "BufDataFormat2_10_10_10", "BufNumFormatSint"),
    BOTH_FORMAT_ENTRY("VK_FORMAT_R16_UNORM", "BufDataFormat16", "BufNumFormatUnorm"),
    BOTH_FORMAT_ENTRY("VK_FORMAT_R16_SNORM", "BufDataFormat16", "BufNumFormatSnorm"),
    BOTH_FORMAT_ENTRY("VK_FORMAT_R16_USCALED", "BufDataFormat16", "BufNumFormatUscaled"),
    BOTH_FORMAT_ENTRY("VK_FORMAT_R16_SSCALED", "BufDataFormat16", "BufNumFormatSscaled"),
    BOTH_FORMAT_ENTRY("VK_FORMAT_R16_UINT", "BufDataFormat16", "BufNumFormatUint"),
    BOTH_FORMAT_ENTRY("VK_FORMAT_R16_SINT", "BufDataFormat16", "BufNumFormatSint"),
    BOTH_FORMAT_ENTRY("VK_FORMAT_R16_SFLOAT", "BufDataFormat16", "BufNumFormatFloat"),
    BOTH_FORMAT_ENTRY("VK_FORMAT_R16G16_UNORM", "BufDataFormat16_16", "BufNumFormatUnorm"),
    BOTH_FORMAT_ENTRY("VK_FORMAT_R16G16_SNORM", "BufDataFormat16_16", "BufNumFormatSnorm"),
    BOTH_FORMAT_ENTRY("VK_FORMAT_R16G16_USCALED", "BufDataFormat16_16", "BufNumFormatUscaled"),
    BOTH_FORMAT_ENTRY("VK_FORMAT_R16G16_SSCALED", "BufDataFormat16_16", "BufNumFormatSscaled"),
    BOTH_FORMAT_ENTRY("VK_FORMAT_R16G16_UINT", "BufDataFormat16_16", "BufNumFormatUint"),
    BOTH_FORMAT_ENTRY("VK_FORMAT_R16G16_SINT", "BufDataFormat16_16", "BufNumFormatSint"),
    BOTH_FORMAT_ENTRY("VK_FORMAT_R16G16_SFLOAT", "BufDataFormat16_16", "BufNumFormatFloat"),
    INVALID_FORMAT_ENTRY("VK_FORMAT_R16G16B16_UNORM"),
    INVALID_FORMAT_ENTRY("VK_FORMAT_R16G16B16_SNORM"),
    INVALID_FORMAT_ENTRY("VK_FORMAT_R16G16B16_USCALED"),
    INVALID_FORMAT_ENTRY("VK_FORMAT_R16G16B16_SSCALED"),
    INVALID_FORMAT_ENTRY("VK_FORMAT_R16G16B16_UINT"),
    INVALID_FORMAT_ENTRY("VK_FORMAT_R16G16B16_SINT"),
    INVALID_FORMAT_ENTRY("VK_FORMAT_R16G16B16_SFLOAT"),
    BOTH_FORMAT_ENTRY("VK_FORMAT_R16G16B16A16_UNORM", "BufDataFormat16_16_16_16", "BufNumFormatUnorm"),
    BOTH_FORMAT_ENTRY("VK_FORMAT_R16G16B16A16_SNORM", "BufDataFormat16_16_16_16", "BufNumFormatSnorm"),
    BOTH_FORMAT_ENTRY("VK_FORMAT_R16G16B16A16_USCALED", "BufDataFormat16_16_16_16", "BufNumFormatUscaled"),
    BOTH_FORMAT_ENTRY("VK_FORMAT_R16G16B16A16_SSCALED", "BufDataFormat16_16_16_16", "BufNumFormatSscaled"),
    BOTH_FORMAT_ENTRY("VK_FORMAT_R16G16B16A16_UINT", "BufDataFormat16_16_16_16", "BufNumFormatUint"),
    BOTH_FORMAT_ENTRY("VK_FORMAT_R16G16B16A16_SINT", "BufDataFormat16_16_16_16", "BufNumFormatSint"),
    BOTH_FORMAT_ENTRY("VK_FORMAT_R16G16B16A16_SFLOAT", "BufDataFormat16_16_16_16", "BufNumFormatFloat"),
    BOTH_FORMAT_ENTRY("VK_FORMAT_R32_UINT", "BufDataFormat32", "BufNumFormatUint"),
    BOTH_FORMAT_ENTRY("VK_FORMAT_R32_SINT", "BufDataFormat32", "BufNumFormatSint"),
    BOTH_FORMAT_ENTRY("VK_FORMAT_R32_SFLOAT", "BufDataFormat32", "BufNumFormatFloat"),
    BOTH_FORMAT_ENTRY("VK_FORMAT_R32G32_UINT", "BufDataFormat32_32", "BufNumFormatUint"),
    BOTH_FORMAT_ENTRY("VK_FORMAT_R32G32_SINT", "BufDataFormat32_32", "BufNumFormatSint"),
    BOTH_FORMAT_ENTRY("VK_FORMAT_R32G32_SFLOAT", "BufDataFormat32_32", "BufNumFormatFloat"),
    BOTH_FORMAT_ENTRY("VK_FORMAT_R32G32B32_UINT", "BufDataFormat32_32_32", "BufNumFormatUint"),
    BOTH_FORMAT_ENTRY("VK_FORMAT_R32G32B32_SINT", "BufDataFormat32_32_32", "BufNumFormatSint"),
    BOTH_FORMAT_ENTRY("VK_FORMAT_R32G32B32_SFLOAT", "BufDataFormat32_32_32", "BufNumFormatFloat"),
    BOTH_FORMAT_ENTRY("VK_FORMAT_R32G32B32A32_UINT", "BufDataFormat32_32_32_32", "BufNumFormatUint"),
    BOTH_FORMAT_ENTRY("VK_FORMAT_R32G32B32A32_SINT", "BufDataFormat32_32_32_32", "BufNumFormatSint"),
    BOTH_FORMAT_ENTRY("VK_FORMAT_R32G32B32A32_SFLOAT", "BufDataFormat32_32_32_32", "BufNumFormatFloat"),
    VERTEX_FORMAT_ENTRY("VK_FORMAT_R64_UINT", "BufDataFormat64", "BufNumFormatUint"),
    VERTEX_FORMAT_ENTRY("VK_FORMAT_R64_SINT", "BufDataFormat64", "BufNumFormatSint"),
    VERTEX_FORMAT_ENTRY("VK_FORMAT_R64_SFLOAT", "BufDataFormat64", "BufNumFormatFloat"),
    VERTEX_FORMAT_ENTRY("VK_FORMAT_R64G64_UINT", "BufDataFormat64_64", "BufNumFormatUint"),
    VERTEX_FORMAT_ENTRY("VK_FORMAT_R64G64_SINT", "BufDataFormat64_64", "BufNumFormatSint"),
    VERTEX_FORMAT_ENTRY("VK_FORMAT_R64G64_SFLOAT", "BufDataFormat64_64", "BufNumFormatFloat"),
    VERTEX_FORMAT_ENTRY("VK_FORMAT_R64G64B64_UINT", "BufDataFormat64_64_64", "BufNumFormatUint"),
    VERTEX_FORMAT_ENTRY("VK_FORMAT_R64G64B64_SINT", "BufDataFormat64_64_64", "BufNumFormatSint"),
    VERTEX_FORMAT_ENTRY("VK_FORMAT_R64G64B64_SFLOAT", "BufDataFormat64_64_64", "BufNumFormatFloat"),
    VERTEX_FORMAT_ENTRY("VK_FORMAT_R64G64B64A64_UINT", "BufDataFormat64_64_64_64", "BufNumFormatUint"),
    VERTEX_FORMAT_ENTRY("VK_FORMAT_R64G64B64A64_SINT", "BufDataFormat64_64_64_64", "BufNumFormatSint"),
    VERTEX_FORMAT_ENTRY("VK_FORMAT_R64G64B64A64_SFLOAT", "BufDataFormat64_64_64_64", "BufNumFormatFloat"),
    BOTH_FORMAT_ENTRY("VK_FORMAT_B10G11R11_UFLOAT_PACK32", "BufDataFormat10_11_11", "BufNumFormatFloat"),
    COLOR_FORMAT_ENTRY("VK_FORMAT_E5B9G9R9_UFLOAT_PACK32", "BufDataFormat5_9_9_9", "BufNumFormatFloat"),
    COLOR_FORMAT_ENTRY("VK_FORMAT_D16_UNORM", "BufDataFormat16", "BufNumFormatUnorm"),
    INVALID_FORMAT_ENTRY("VK_FORMAT_X8_D24_UNORM_PACK32"),
    COLOR_FORMAT_ENTRY("VK_FORMAT_D32_SFLOAT", "BufDataFormat32", "BufNumFormatFloat"),
    COLOR_FORMAT_ENTRY("VK_FORMAT_S8_UINT", "BufDataFormat8", "BufNumFormatUint"),
    COLOR_FORMAT_ENTRY("VK_FORMAT_D16_UNORM_S8_UINT", "BufDataFormat16", "BufNumFormatFloat"),
    INVALID_FORMAT_ENTRY("VK_FORMAT_D24_UNORM_S8_UINT"),
    COLOR_FORMAT_ENTRY("VK_FORMAT_D32_SFLOAT_S8_UINT", "BufDataFormat32", "BufNumFormatFloat"),
    INVALID_FORMAT_ENTRY("VK_FORMAT_BC1_RGB_UNORM_BLOCK"),
    INVALID_FORMAT_ENTRY("VK_FORMAT_BC1_RGB_SRGB_BLOCK"),
    INVALID_FORMAT_ENTRY("VK_FORMAT_BC1_RGBA_UNORM_BLOCK"),
    INVALID_FORMAT_ENTRY("VK_FORMAT_BC1_RGBA_SRGB_BLOCK"),
    INVALID_FORMAT_ENTRY("VK_FORMAT_BC2_UNORM_BLOCK"),
    INVALID_FORMAT_ENTRY("VK_FORMAT_BC2_SRGB_BLOCK"),
    INVALID_FORMAT_ENTRY("VK_FORMAT_BC3_UNORM_BLOCK"),
    INVALID_FORMAT_ENTRY("VK_FORMAT_BC3_SRGB_BLOCK"),
    INVALID_FORMAT_ENTRY("VK_FORMAT_BC4_UNORM_BLOCK"),
    INVALID_FORMAT_ENTRY("VK_FORMAT_BC4_SNORM_BLOCK"),
    INVALID_FORMAT_ENTRY("VK_FORMAT_BC5_UNORM_BLOCK"),
    INVALID_FORMAT_ENTRY("VK_FORMAT_BC5_SNORM_BLOCK"),
    INVALID_FORMAT_ENTRY("VK_FORMAT_BC6H_UFLOAT_BLOCK"),
    INVALID_FORMAT_ENTRY("VK_FORMAT_BC6H_SFLOAT_BLOCK"),
    INVALID_FORMAT_ENTRY("VK_FORMAT_BC7_UNORM_BLOCK"),
    INVALID_FORMAT_ENTRY("VK_FORMAT_BC7_SRGB_BLOCK"),
    INVALID_FORMAT_ENTRY("VK_FORMAT_ETC2_R8G8B8_UNORM_BLOCK"),
    INVALID_FORMAT_ENTRY("VK_FORMAT_ETC2_R8G8B8_SRGB_BLOCK"),
    INVALID_FORMAT_ENTRY("VK_FORMAT_ETC2_R8G8B8A1_UNORM_BLOCK"),
    INVALID_FORMAT_ENTRY("VK_FORMAT_ETC2_R8G8B8A1_SRGB_BLOCK"),
    INVALID_FORMAT_ENTRY("VK_FORMAT_ETC2_R8G8B8A8_UNORM_BLOCK"),
    INVALID_FORMAT_ENTRY("VK_FORMAT_ETC2_R8G8B8A8_SRGB_BLOCK"),
    INVALID_FORMAT_ENTRY("VK_FORMAT_EAC_R11_UNORM_BLOCK"),
    INVALID_FORMAT_ENTRY("VK_FORMAT_EAC_R11_SNORM_BLOCK"),
    INVALID_FORMAT_ENTRY("VK_FORMAT_EAC_R11G11_UNORM_BLOCK"),
    INVALID_FORMAT_ENTRY("VK_FORMAT_EAC_R11G11_SNORM_BLOCK"),
    INVALID_FORMAT_ENTRY("VK_FORMAT_ASTC_4x4_UNORM_BLOCK"),
    INVALID_FORMAT_ENTRY("VK_FORMAT_ASTC_4x4_SRGB_BLOCK"),
    INVALID_FORMAT_ENTRY("VK_FORMAT_ASTC_5x4_UNORM_BLOCK"),
    INVALID_FORMAT_ENTRY("VK_FORMAT_ASTC_5x4_SRGB_BLOCK"),
    INVALID_FORMAT_ENTRY("VK_FORMAT_ASTC_5x5_UNORM_BLOCK"),
    INVALID_FORMAT_ENTRY("VK_FORMAT_ASTC_5x5_SRGB_BLOCK"),
    INVALID_FORMAT_ENTRY("VK_FORMAT_ASTC_6x5_UNORM_BLOCK"),
    INVALID_FORMAT_ENTRY("VK_FORMAT_ASTC_6x5_SRGB_BLOCK"),
    INVALID_FORMAT_ENTRY("VK_FORMAT_ASTC_6x6_UNORM_BLOCK"),
    INVALID_FORMAT_ENTRY("VK_FORMAT_ASTC_6x6_SRGB_BLOCK"),
    INVALID_FORMAT_ENTRY("VK_FORMAT_ASTC_8x5_UNORM_BLOCK"),
    INVALID_FORMAT_ENTRY("VK_FORMAT_ASTC_8x5_SRGB_BLOCK"),
    INVALID_FORMAT_ENTRY("VK_FORMAT_ASTC_8x6_UNORM_BLOCK"),
    INVALID_FORMAT_ENTRY("VK_FORMAT_ASTC_8x6_SRGB_BLOCK"),
    INVALID_FORMAT_ENTRY("VK_FORMAT_ASTC_8x8_UNORM_BLOCK"),
    INVALID_FORMAT_ENTRY("VK_FORMAT_ASTC_8x8_SRGB_BLOCK"),
    INVALID_FORMAT_ENTRY("VK_FORMAT_ASTC_10x5_UNORM_BLOCK"),
    INVALID_FORMAT_ENTRY("VK_FORMAT_ASTC_10x5_SRGB_BLOCK"),
    INVALID_FORMAT_ENTRY("VK_FORMAT_ASTC_10x6_UNORM_BLOCK"),
    INVALID_FORMAT_ENTRY("VK_FORMAT_ASTC_10x6_SRGB_BLOCK"),
    INVALID_FORMAT_ENTRY("VK_FORMAT_ASTC_10x8_UNORM_BLOCK"),
    INVALID_FORMAT_ENTRY("VK_FORMAT_ASTC_10x8_SRGB_BLOCK"),
    INVALID_FORMAT_ENTRY("VK_FORMAT_ASTC_10x10_UNORM_BLOCK"),
    INVALID_FORMAT_ENTRY("VK_FORMAT_ASTC_10x10_SRGB_BLOCK"),
    INVALID_FORMAT_ENTRY("VK_FORMAT_ASTC_12x10_UNORM_BLOCK"),
    INVALID_FORMAT_ENTRY("VK_FORMAT_ASTC_12x10_SRGB_BLOCK"),
    INVALID_FORMAT_ENTRY("VK_FORMAT_ASTC_12x12_UNORM_BLOCK"),
    INVALID_FORMAT_ENTRY("VK_FORMAT_ASTC_12x12_SRGB_BLOCK")>>

InvalidFormatPair == [dfmt |-> "BufDataFormatInvalid", nfmt |-> "BufNumFormatUnorm"]

\* format < size, format converted to the size_t of size: a negative enum
\* value converts to a value above every table size.
LessAsSizeT(n, size) == n >= 0 /\ n < size

mapVkFormatEitherUsage(vkFormat, colorExport) ==
  IF LessAsSizeT(vkFormat, Len(FormatTable))
    THEN IF FormatTable[vkFormat + 1].validExportFormat \/ FormatTable[vkFormat + 1].validVertexFormat
           THEN [dfmt |-> FormatTable[vkFormat + 1].dfmt, nfmt |-> FormatTable[vkFormat + 1].nfmt]
           ELSE InvalidFormatPair
    ELSE InvalidFormatPair

mapVkFormat(vkFormat, colorExport) ==
  IF LessAsSizeT(vkFormat, Len(FormatTable))
    THEN IF \/ colorExport /\ FormatTable[vkFormat + 1].validExportFormat
            \/ ~colorExport /\ FormatTable[vkFormat + 1].validVertexFormat
           THEN [dfmt |-> FormatTable[vkFormat + 1].dfmt, nfmt |-> FormatTable[vkFormat + 1].nfmt]
           ELSE InvalidFormatPair
    ELSE InvalidFormatPair

\* VkFormat codes explored: one below 0, the whole table, and codes beyond it.
FormatCodes == (-1)..(Len(FormatTable) - 1 + MaxFormatBeyond)

IdleFlatten ==
  /\ nodes = <<>>
  /\ descriptorRangeValues = <<>>
  /\ immutableNodesMap = <<>>
  /\ nodeCount = 0
  /\ allocUserDataNodes = <<>>
  /\ destInnerTable = 0
  /\ stack = <<>>
  /\ wild = <<>>
  /\ ub = {}
  /\ carved = <<>>
  /\ written = <<>>
  /\ userDataNodes = [given |-> FALSE, start |-> 0, count |-> 0]
  /\ allocated = FALSE

InitFormat ==
  /\ pc = "mapVkFormat"
  /\ format \in FormatCodes
  /\ isColorExport \in BOOLEAN
  /\ fmtResult = Null
  /\ IdleFlatten
  /\ IdleGpu
  /\ IdleContext

\* A call of mapVkFormat(format, isColorExport).
MapVkFormat ==
  /\ pc = "mapVkFormat"
  /\ fmtResult' = mapVkFormat(format, isColorExport)
  /\ pc' = "mapped"
  /\ UNCHANGED <<format, isColorExport, flatVars, gpuVars, ctxVars, calls, callees>>

NextFormat == MapVkFormat

SpecFormat == InitFormat /\ [][NextFormat]_vars

InTable(code) == code \in 0..(Len(FormatTable) - 1)

\* C7: mapVkFormat returns the invalid pair for a code outside the table and
\* for a row whose flag for the requested usage is clear, and the row's
\* (dfmt, nfmt) when that flag is set, whatever the flag of the other usage.
C7_LookupHonoursRequestedUsage ==
  pc = "mapped" =>
    IF ~InTable(format) THEN fmtResult = InvalidFormatPair
    ELSE LET row == FormatTable[format + 1]
             flag == IF isColorExport THEN row.validExportFormat
                                      ELSE row.validVertexFormat
         IN IF flag THEN fmtResult = [dfmt |-> row.dfmt, nfmt |-> row.nfmt]
                    ELSE fmtResult = InvalidFormatPair

\* C7 witness: a vertex-input lookup of a row that is valid for color export
\* only has returned.
C7_Witness ==
  /\ pc = "mapped"
  /\ InTable(format)
  /\ ~isColorExport
  /\ FormatTable[format + 1].validExportFormat
  /\ ~FormatTable[format + 1].validVertexFormat

R16G16B16Formats ==
  {"VK_FORMAT_R16G16B16_UNORM", "VK_FORMAT_R16G16B16_SNORM",
   "VK_FORMAT_R16G16B16_USCALED", "VK_FORMAT_R16G16B16_SSCALED",
   "VK_FORMAT_R16G16B16_UINT", "VK_FORMAT_R16G16B16_SINT", "VK_FORMAT_R16G16B16_SFLOAT"}

R64Formats ==
  {"VK_FORMAT_R64_UINT", "VK_FORMAT_R64_SINT", "VK_FORMAT_R64_SFLOAT",
   "VK_FORMAT_R64G64_UINT", "VK_FORMAT_R64G64_SINT", "VK_FORMAT_R64G64_SFLOAT",
   "VK_FORMAT_R64G64B64_UINT", "VK_FORMAT_R64G64B64_SINT", "VK_FORMAT_R64G64B64_SFLOAT",
   "VK_FORMAT_R64G64B64A64_UINT", "VK_FORMAT_R64G64B64A64_SINT",
   "VK_FORMAT_R64G64B64A64_SFLOAT"}

SrgbFormats ==
  {"VK_FORMAT_R8_SRGB", "VK_FORMAT_R8G8_SRGB", "VK_FORMAT_R8G8B8_SRGB",
   "VK_FORMAT_B8G8R8_SRGB", "VK_FORMAT_R8G8B8A8_SRGB", "VK_FORMAT_B8G8R8A8_SRGB"}

FormatNames == {FormatTable[i].format : i \in DOMAIN FormatTable}

IsValidPair(pair) == pair.dfmt # "BufDataFormatInvalid"

\* C8: every R16G16B16_* format gives the invalid pair for both usages; every
\* R64* format a valid pair for vertex input and the invalid pair for color
\* export; R8G8B8_UNORM and every *_SRGB format a valid pair for color export
\* and the invalid pair for vertex input.  All these formats are in the table.
C8_LegalityMatrix ==
  /\ R16G16B16Formats \cup R64Formats \cup SrgbFormats \cup {"VK_FORMAT_R8G8B8_UNORM"}
       \subseteq FormatNames
  /\ (pc = "mapped" /\ InTable(format)) =>
       LET name == FormatTable[format + 1].format
       IN /\ name \in R16G16B16Formats => fmtResult = InvalidFormatPair
          /\ name \in R64Formats =>
               IF isColorExport THEN fmtResult = InvalidFormatPair
                                ELSE IsValidPair(fmtResult)
          /\ name \in SrgbFormats \cup {"VK_FORMAT_R8G8B8_UNORM"} =>
               IF isColorExport THEN IsValidPair(fmtResult)
                                ELSE fmtResult = InvalidFormatPair

\* C8 witness: the vertex-input lookup of R8G8B8_UNORM has returned.
C8_Witness ==
  /\ pc = "mapped"
  /\ InTable(format)
  /\ FormatTable[format + 1].format = "VK_FORMAT_R8G8B8_UNORM"
  /\ ~isColorExport

\* ---------------------------------------------------------------------
\* getGpuNameString and getGpuNameAbbreviation.  A std::string is the
\* sequence of its character codes; a string literal returned as a
\* const char * is a TLA+ string.

MaxMajor == 10
MaxMinor == 10
MaxStepping == 1
MaxLetter == 6

\* 0xFFFA, the first stepping of an experimental target.
ExperimentalStepping == 65530

\* "gfx"
Gfx == <<103, 102, 120>>

\* operator<<(unsigned): the decimal digits of n, no leading zero.
RECURSIVE Dec(_)
Dec(n) == IF n < 10 THEN <<48 + n>> ELSE Dec(n \div 10) \o <<48 + (n % 10)>>

\* char(x): the low eight bits of x.
AsChar(x) == x % 256

getGpuNameStringStrictThreshold(ip, name) ==
  LET cleared == <<>>
      head == cleared \o Gfx \o Dec(ip.major) \o Dec(ip.minor)
  IN  IF ip.stepping > ExperimentalStepping
      THEN head \o <<AsChar(ip.stepping - ExperimentalStepping + 65)>>
      ELSE head \o Dec(ip.stepping)

getGpuNameString(ip, name) ==
  LET cleared == <<>>
      head == cleared \o Gfx \o Dec(ip.major) \o Dec(ip.minor)
  IN  IF ip.stepping >= ExperimentalStepping
      THEN head \o <<AsChar(ip.stepping - ExperimentalStepping + 65)>>
      ELSE head \o Dec(ip.stepping)

getGpuNameAbbreviationWithGfx10(ip) ==
  CASE ip.major = 6 -> "SI"
    [] ip.major = 7 -> "CI"
    [] ip.major = 8 -> "VI"
    [] ip.major = 9 -> "GFX9"
    [] ip.major = 10 -> "GFX10"
    [] OTHER -> "UNKNOWN"

getGpuNameAbbreviation(ip) ==
  CASE ip.major = 6 -> "SI"
    [] ip.major = 7 -> "CI"
    [] ip.major = 8 -> "VI"
    [] ip.major = 9 -> "GFX9"
    [] OTHER -> "UNKNOWN"

\* Steppings: small decimal ones, the ones around the threshold, the first
\* one past 'Z' and the one where the character code wraps to 0.
Steppings ==
  (0..MaxStepping)
    \cup ((ExperimentalStepping - 1)..(ExperimentalStepping + MaxLetter))
    \cup {ExperimentalStepping + 26, ExperimentalStepping + 191}

GfxIpVersions ==
  [major : 0..MaxMajor, minor : 0..MaxMinor, stepping : Steppings]

\* Content of the caller's string before the call: "", "x", "gfx900".
OldNames == {<<>>, <<120>>, <<103, 102, 120, 57, 48, 48>>}

InitGpuName ==
  /\ pc = "getGpuName"
  /\ gfxIp \in GfxIpVersions
  /\ gpuName \in OldNames
  /\ nameAbbr = Null
  /\ IdleFlatten
  /\ IdleFormat
  /\ IdleContext

GetGpuNameString ==
  /\ pc = "getGpuName"
  /\ gpuName' = getGpuNameString(gfxIp, gpuName)
  /\ pc' = "named"
  /\ UNCHANGED <<flatVars, fmtVars, ctxVars, calls, callees, gfxIp, nameAbbr>>

GetGpuNameAbbreviation ==
  /\ pc = "getGpuName"
  /\ nameAbbr' = getGpuNameAbbreviation(gfxIp)
  /\ pc' = "abbreviated"
  /\ UNCHANGED <<flatVars, fmtVars, ctxVars, calls, callees, gfxIp, gpuName>>

NextGpuName == GetGpuNameString \/ GetGpuNameAbbreviation

SpecGpuName == InitGpuName /\ [][NextGpuName]_vars

\* --- C9 ---------------------------------------------------------------

IsDigits(s) == \A i \in 1..Len(s) : s[i] \in 48..57

RECURSIVE DigitsValue(_)
DigitsValue(s) ==
  IF s = <<>> THEN 0
  ELSE 10 * DigitsValue(SubSeq(s, 1, Len(s) - 1)) + (s[Len(s)] - 48)

\* s is the decimal numeral of n
IsDecimalOf(s, n) ==
  /\ Len(s) >= 1
  /\ IsDigits(s)
  /\ (Len(s) > 1 => s[1] # 48)
  /\ DigitsValue(s) = n

\* C9: after getGpuNameString the output string is exactly "gfx", the
\* decimal numeral of major, the decimal numeral of minor, and then the
\* stepping: its decimal numeral when stepping < 0xFFFA, the single
\* character 'A' + (stepping - 0xFFFA) when stepping >= 0xFFFA.  Nothing of
\* the string's previous content remains; 10.1.0 gives "gfx1010" and
\* 10.1.0xFFFA gives "gfx101A".
C9_GpuNameFormat ==
  pc = "named" =>
    /\ \E i \in 4..Len(gpuName), j \in 4..Len(gpuName) :
         /\ i <= j
         /\ SubSeq(gpuName, 1, 3) = Gfx
         /\ IsDecimalOf(SubSeq(gpuName, 4, i), gfxIp.major)
         /\ IsDecimalOf(SubSeq(gpuName, i + 1, j), gfxIp.minor)
         /\ LET rest == SubSeq(gpuName, j + 1, Len(gpuName))
            IN  IF gfxIp.stepping < ExperimentalStepping
                THEN IsDecimalOf(rest, gfxIp.stepping)
                ELSE /\ Len(rest) = 1
                     /\ rest[1] = AsChar(65 + (gfxIp.stepping - ExperimentalStepping))
    /\ (gfxIp = [major |-> 10, minor |-> 1, stepping |-> 0])
         => gpuName = <<103, 102, 120, 49, 48, 49, 48>>
    /\ (gfxIp = [major |-> 10, minor |-> 1, stepping |-> ExperimentalStepping])
         => gpuName = <<103, 102, 120, 49, 48, 49, 65>>

\* 10.1.0xFFFA has been named "gfx101A".
C9_Witness ==
  /\ pc = "named"
  /\ gfxIp = [major |-> 10, minor |-> 1, stepping |-> ExperimentalStepping]
  /\ gpuName = <<103, 102, 120, 49, 48, 49, 65>>

\* --- C10 --------------------------------------------------------------

AbbreviationsProduced == {getGpuNameAbbreviation(v) : v \in GfxIpVersions}

DependsOnlyOnMajor ==
  \A v \in GfxIpVersions :
    v.major = gfxIp.major => getGpuNameAbbreviation(v) = nameAbbr

\* C10 as stated: getGpuNameAbbreviation depends only on the major
\* version, the strings it can return are six, and it returns "UNKNOWN" for
\* every major version that has no string of its own.
C10_SixAbbreviations ==
  pc = "abbreviated" =>
    /\ DependsOnlyOnMajor
    /\ nameAbbr \in AbbreviationsProduced
    /\ Cardinality(AbbreviationsProduced) = 6
    /\ (gfxIp.major \notin 6..9 => nameAbbr = "UNKNOWN")

\* C10: getGpuNameAbbreviation depends only on the major version, its
\* result is one of the five strings "SI", "CI", "VI", "GFX9", "UNKNOWN",
\* and it is "UNKNOWN" exactly for the major versions other than 6, 7, 8, 9.
C10_AbbreviationByMajor ==
  pc = "abbreviated" =>
    /\ DependsOnlyOnMajor
    /\ nameAbbr \in {"SI", "CI", "VI", "GFX9", "UNKNOWN"}
    /\ AbbreviationsProduced = {"SI", "CI", "VI", "GFX9", "UNKNOWN"}
    /\ (nameAbbr = "UNKNOWN" <=> gfxIp.major \notin 6..9)

\* Major version 10 has been abbreviated, to "UNKNOWN".
C10_Witness ==
  /\ pc = "abbreviated"
  /\ gfxIp.major = 10
  /\ nameAbbr = "UNKNOWN"

\* ---------------------------------------------------------------------
\* getShaderHashCode.

\* Vkgc::ShaderStage: vertex, tessellation control, tessellation evaluation,
\* geometry, fragment, compute.
ShaderStageVertex == 0
ShaderStageFragment == 4
ShaderStageCompute == 5
ShaderStageCount == 6

\* Largest value of a hash word explored.
MaxHashWord == 2

HashWords == 0..MaxHashWord

RECURSIVE Xor(_, _)
Xor(a, b) ==
  IF a = 0 THEN b
  ELSE IF b = 0 THEN a
  ELSE (((a % 2) + (b % 2)) % 2) + 2 * Xor(a \div 2, b \div 2)

\* MetroHash::compact64: folds the 128-bit digest, given as its two 64-bit
\* halves, into 64 bits.
compact64(hash) == Xor(hash[1], hash[2])

NoModuleData == [present |-> FALSE, hash |-> <<0, 0>>]
ModuleData(hash) == [present |-> TRUE, hash |-> hash]

\* PipelineShaderInfo
\* PipelineShaderOptions, value-initialised.
DefaultShaderOptions ==
  [clientHash |-> NoHash, trapPresent |-> FALSE, debugMode |-> FALSE,
   allowReZ |-> FALSE, vgprLimit |-> 0, sgprLimit |-> 0,
   maxThreadGroupsPerComputeUnit |-> 0, waveSize |-> 0, wgpMode |-> FALSE,
   allowVaryWaveSize |-> FALSE, waveBreakSize |-> 0,
   enableLoadScalarizer |-> FALSE, scalarThreshold |-> 0,
   useSiScheduler |-> FALSE, updateDescInElf |-> FALSE, unrollThreshold |-> 0]

ShaderInfo(clientHash, moduleData, pUserDataNodes, pDescriptorRangeValues) ==
  [options |-> [DefaultShaderOptions EXCEPT !.clientHash = clientHash],
   pModuleData |-> moduleData,
   pUserDataNodes |-> pUserDataNodes,
   pDescriptorRangeValues |-> pDescriptorRangeValues]

EmptyShaderInfo == ShaderInfo(NoHash, NoModuleData, <<>>, <<>>)

getShaderHashCodeEitherHalf(infos, stage) ==
  LET shaderInfo == infos[stage]
      moduleData == shaderInfo.pModuleData
  IN  IF shaderInfo.options.clientHash.upper # 0 \/ shaderInfo.options.clientHash.lower # 0
      THEN shaderInfo.options.clientHash
      ELSE IF moduleData.present
           THEN [lower |-> compact64(moduleData.hash), upper |-> 0]
           ELSE [lower |-> 0, upper |-> 0]

getShaderHashCode(infos, stage) ==
  LET shaderInfo == infos[stage]
      moduleData == shaderInfo.pModuleData
  IN  IF shaderInfo.options.clientHash.upper # 0 /\ shaderInfo.options.clientHash.lower # 0
      THEN shaderInfo.options.clientHash
      ELSE IF moduleData.present
           THEN [lower |-> compact64(moduleData.hash), upper |-> 0]
           ELSE [lower |-> 0, upper |-> 0]

ClientHashes == [lower : HashWords, upper : HashWords]
ModuleDatas == {NoModuleData} \cup {ModuleData(<<a, b>>) : a \in HashWords, b \in HashWords}
HashShaderInfos ==
  {ShaderInfo(c, m, <<>>, <<>>) : c \in ClientHashes, m \in ModuleDatas}

IdleStageVars == /\ IdleVertexInput /\ IdleColorExport /\ IdleStages /\ IdleRun

InitShaderHash ==
  /\ pc = "getShaderHashCode"
  /\ hashStage \in ShaderStageVertex..ShaderStageCompute
  /\ \E info \in HashShaderInfos :
       shaderInfos = [s \in ShaderStageVertex..ShaderStageCompute |->
                        IF s = hashStage THEN info ELSE EmptyShaderInfo]
  /\ shaderHash = NoHash
  /\ IdleFlatten
  /\ IdleFormat
  /\ IdleGpu
  /\ IdleStageVars

\* A call of getShaderHashCode(hashStage).
GetShaderHashCode ==
  /\ pc = "getShaderHashCode"
  /\ shaderHash' = getShaderHashCode(shaderInfos, hashStage)
  /\ pc' = "hashed"
  /\ UNCHANGED <<flatVars, fmtVars, gpuVars, shaderInfos, hashStage, vtxVars,
                 cbVars, stageVars, runVars, calls, callees>>

NextShaderHash == GetShaderHashCode

SpecShaderHash == InitShaderHash /\ [][NextShaderHash]_vars

\* C11: getShaderHashCode returns the client's hash when both of its halves
\* are non-zero; when either half is zero it returns the compaction of the
\* module's digest in the lower half with a zero upper half, and the all-zero
\* hash when the stage has no module data.
C11_ClientHashOrDigest ==
  pc = "hashed" =>
    LET info == shaderInfos[hashStage]
        client == info.options.clientHash
    IN /\ (client.upper # 0 /\ client.lower # 0) => shaderHash = client
       /\ (client.upper = 0 \/ client.lower = 0) =>
            /\ shaderHash.upper = 0
            /\ info.pModuleData.present =>
                 shaderHash.lower = compact64(info.pModuleData.hash)
            /\ ~info.pModuleData.present => shaderHash.lower = 0

\* A client hash with a zero upper half has been replaced by the compaction
\* of the module's digest.
C11_Witness ==
  /\ pc = "hashed"
  /\ shaderInfos[hashStage].options.clientHash.lower # 0
  /\ shaderInfos[hashStage].options.clientHash.upper = 0
  /\ shaderInfos[hashStage].pModuleData.present
  /\ shaderHash.lower # shaderInfos[hashStage].options.clientHash.lower
  /\ shaderHash.lower # 0

\* ---------------------------------------------------------------------
\* setVertexInputDescriptions.  The binding table is a sequence: the slot
\* of index i is bindings[i + 1].

\* Largest binding number of a binding description, a divisor or an attribute.
MaxBinding == 2

\* Undefined behaviour: bindings[divisor->binding] with the index equal to the
\* size of the table.
UbDivisor == "store beyond the binding table"

VK_VERTEX_INPUT_RATE_VERTEX == 0
VK_VERTEX_INPUT_RATE_INSTANCE == 1
VertexInputRateVertex == 0
VertexInputRateInstance == 1

\* The code of the VkFormat called name.
VkFormatCode(name) ==
  (CHOOSE i \in 1..Len(FormatTable) : FormatTable[i].format = name) - 1

VK_FORMAT_UNDEFINED == 0

\* A value-initialised lgc::VertexInputDescription.
ZeroVertexInputDescription ==
  [location |-> 0, binding |-> 0, offset |-> 0, stride |-> 0,
   dfmt |-> "BufDataFormatInvalid", nfmt |-> "BufNumFormatUnorm", inputRate |-> 0]

\* bindings.resize(n)
ResizeBindings(table, n) ==
  IF n <= Len(table) THEN SubSeq(table, 1, n)
  ELSE table \o [i \in 1..(n - Len(table)) |-> ZeroVertexInputDescription]

\* One iteration of the loop over the binding descriptions.
SetBinding(table, binding) ==
  LET idx == binding.binding
      grown == IF idx >= Len(table) THEN ResizeBindings(table, idx + 1) ELSE table
  IN  [grown EXCEPT ![idx + 1] =
         [@ EXCEPT !.binding = binding.binding,
                   !.stride = binding.stride,
                   !.inputRate =
                      IF binding.inputRate = VK_VERTEX_INPUT_RATE_VERTEX
                        THEN VertexInputRateVertex
                        ELSE VertexInputRateInstance]]

\* The loop over the binding descriptions, from description i on.
RECURSIVE GatherBindings(_, _, _)
GatherBindings(table, descs, i) ==
  IF i > Len(descs) THEN table
  ELSE GatherBindings(SetBinding(table, descs[i]), descs, i + 1)

\* divisor->binding <= bindings.size()
DivisorInRange(divisor, table) == divisor.binding <= Len(table)

\* The loop over the divisors, from divisor i on: the table after the stores
\* that land in it.
RECURSIVE ApplyDivisors(_, _, _)
ApplyDivisors(table, divisors, i) ==
  IF i > Len(divisors) THEN table
  ELSE ApplyDivisors(
         IF DivisorInRange(divisors[i], table) /\ divisors[i].binding < Len(table)
           THEN [table EXCEPT ![divisors[i].binding + 1].inputRate = divisors[i].divisor]
           ELSE table,
         divisors, i + 1)

\* The stores of that loop that land beyond the end of the table, in order.
RECURSIVE StoresBeyond(_, _, _)
StoresBeyond(table, divisors, i) ==
  IF i > Len(divisors) THEN <<>>
  ELSE (IF DivisorInRange(divisors[i], table) /\ divisors[i].binding >= Len(table)
          THEN <<[slot |-> divisors[i].binding, inputRate |-> divisors[i].divisor]>>
          ELSE <<>>)
       \o StoresBeyond(table, divisors, i + 1)

AttributeHasBindingIgnoringSlot(attrib, table) ==
  attrib.binding < Len(table)

\* The two tests that let an attribute through to the format lookup.
AttributeHasBinding(attrib, table) ==
  /\ ~(attrib.binding >= Len(table))
  /\ ~(table[attrib.binding + 1].binding # attrib.binding)

\* One iteration of the loop over the attributes: the descriptions pushed.
VertexInputsOf(attrib, table) ==
  IF ~AttributeHasBinding(attrib, table) THEN <<>>
  ELSE LET binding == table[attrib.binding + 1]
           fmt == mapVkFormat(attrib.format, FALSE)
       IN  IF fmt.dfmt # "BufDataFormatInvalid"
             THEN <<[location |-> attrib.location, binding |-> attrib.binding,
                     offset |-> attrib.offset, stride |-> binding.stride,
                     dfmt |-> fmt.dfmt, nfmt |-> fmt.nfmt,
                     inputRate |-> binding.inputRate]>>
             ELSE <<>>

RECURSIVE AttributeLookupsOfEveryAttribute(_, _, _)
AttributeLookupsOfEveryAttribute(table, attribs, i) ==
  IF i > Len(attribs) THEN <<>>
  ELSE <<<<"mapVkFormat", attribs[i].format, FALSE>>>>
         \o AttributeLookupsOfEveryAttribute(table, attribs, i + 1)

\* The mapVkFormat calls of the loop over the attributes, from attribute i on.
RECURSIVE AttributeLookups(_, _, _)
AttributeLookups(table, attribs, i) ==
  IF i > Len(attribs) THEN <<>>
  ELSE (IF AttributeHasBinding(attribs[i], table)
          THEN <<<<"mapVkFormat", attribs[i].format, FALSE>>>> ELSE <<>>)
         \o AttributeLookups(table, attribs, i + 1)

RECURSIVE GatherVertexInputs(_, _, _)
GatherVertexInputs(table, attribs, i) ==
  IF i > Len(attribs) THEN <<>>
  ELSE VertexInputsOf(attribs[i], table) \o GatherVertexInputs(table, attribs, i + 1)

\* Inputs.  Strides and locations tell the descriptions apart: the binding
\* description at position p has stride 4p, the attribute at position p has
\* location p - 1 and offset 4 (p - 1).
UpToTwo(S) == {<<>>} \cup {<<a>> : a \in S} \cup {<<a, b>> : a \in S, b \in S}

BindingDescriptions ==
  {[p \in DOMAIN s |-> [binding |-> s[p][1], stride |-> 4 * p, inputRate |-> s[p][2]]] :
     s \in UpToTwo((0..MaxBinding) \X
                   {VK_VERTEX_INPUT_RATE_VERTEX, VK_VERTEX_INPUT_RATE_INSTANCE})}

BindingDivisors ==
  {<<>>} \cup {<<[binding |-> b, divisor |-> 3]>> : b \in 0..(MaxBinding + 1)}

AttributeFormats ==
  {VkFormatCode("VK_FORMAT_R64_UINT"), VkFormatCode("VK_FORMAT_R8G8B8_UNORM")}

AttributeDescriptions ==
  {[p \in DOMAIN s |-> [location |-> p - 1, binding |-> s[p][1],
                        offset |-> 4 * (p - 1), format |-> s[p][2]]] :
     s \in UpToTwo((0..MaxBinding) \X AttributeFormats)}

VertexInputs ==
  {NoVertexInput}
    \cup {[present |-> TRUE, bindings |-> b, hasDivisors |-> TRUE,
           divisors |-> d, attributes |-> a] :
            b \in BindingDescriptions, d \in BindingDivisors, a \in AttributeDescriptions}
    \cup {[present |-> TRUE, bindings |-> b, hasDivisors |-> FALSE,
           divisors |-> <<>>, attributes |-> a] :
            b \in BindingDescriptions, a \in AttributeDescriptions}

IdleOthersOfVertexInput ==
  /\ IdleFlatten /\ IdleFormat /\ IdleGpu /\ IdleHash /\ IdleColorExport
  /\ IdleStages /\ IdleRun

InitVertexInput ==
  /\ pc = "setVertexInputDescriptions"
  /\ vertexInput \in VertexInputs
  /\ bindings = <<>>
  /\ bindingsBeyond = <<>>
  /\ descriptions = <<>>
  /\ IdleOthersOfVertexInput

vtxFrame == <<nodes, descriptorRangeValues, immutableNodesMap, nodeCount,
              allocUserDataNodes, destInnerTable, stack, wild, carved, written,
              userDataNodes, allocated, fmtVars, gpuVars, hashVars, cbVars,
              stageVars, runVars, vertexInput>>

\* if (!vertexInput) return; otherwise the loop that gathers the bindings.
SetVertexInputDescriptionsBindings ==
  /\ pc = "setVertexInputDescriptions"
  /\ IF ~vertexInput.present
       THEN /\ pc' = "vertexInputsDone"
            /\ UNCHANGED bindings
       ELSE /\ pc' = "divisors"
            /\ bindings' = GatherBindings(<<>>, vertexInput.bindings, 1)
  /\ UNCHANGED <<vtxFrame, ub, bindingsBeyond, descriptions, calls, callees>>

\* The divisors of the VkPipelineVertexInputDivisorStateCreateInfoEXT in the
\* pNext chain, if there is one.  A store at the index equal to the table
\* size is undefined behaviour: the run stops (SmallVector's operator[]
\* asserts idx < size()) or the store lands beyond the table.
SetVertexInputDescriptionsDivisors ==
  /\ pc = "divisors"
  /\ LET divisors == IF vertexInput.hasDivisors THEN vertexInput.divisors ELSE <<>>
         beyond == StoresBeyond(bindings, divisors, 1)
     IN /\ ub' = ub \cup (IF beyond # <<>> THEN {UbDivisor} ELSE {})
        /\ \/ /\ beyond # <<>>
              /\ pc' = "crashed"
              /\ UNCHANGED <<bindings, bindingsBeyond>>
           \/ /\ pc' = "attributes"
              /\ bindings' = ApplyDivisors(bindings, divisors, 1)
              /\ bindingsBeyond' = beyond
  /\ UNCHANGED <<vtxFrame, descriptions, calls, callees>>

\* The loop that gathers the vertex inputs, and the call that gives them to
\* the pipeline.
SetVertexInputDescriptionsAttributes ==
  /\ pc = "attributes"
  /\ descriptions' = GatherVertexInputs(bindings, vertexInput.attributes, 1)
  /\ callees' = callees \o AttributeLookups(bindings, vertexInput.attributes, 1)
  /\ calls' = Append(calls, <<"setVertexInputDescriptions", descriptions'>>)
  /\ pc' = "vertexInputsDone"
  /\ UNCHANGED <<vtxFrame, ub, bindings, bindingsBeyond>>

NextVertexInput ==
  \/ SetVertexInputDescriptionsBindings
  \/ SetVertexInputDescriptionsDivisors
  \/ SetVertexInputDescriptionsAttributes

SpecVertexInput == InitVertexInput /\ [][NextVertexInput]_vars

\* --- C12, C17, C18 ------------------------------------------------------

\* The binding numbers the binding descriptions assign.
AssignedBindings ==
  {vertexInput.bindings[i].binding : i \in DOMAIN vertexInput.bindings}

\* The binding table before the divisors are applied.
GatheredBindings == GatherBindings(<<>>, vertexInput.bindings, 1)

\* The attribute at position i of the input has a record in the output.
Emitted(i) ==
  \E k \in DOMAIN descriptions :
    descriptions[k].location = vertexInput.attributes[i].location

VertexInputsDone == pc = "vertexInputsDone" /\ vertexInput.present

\* C12: an attribute whose binding index lies below the highest binding
\* number seen and was assigned by no binding description gets no vertex
\* input record, index 0 included.
C12_UnassignedBindingEmitsNothing ==
  VertexInputsDone =>
    \A i \in DOMAIN vertexInput.attributes :
      (/\ vertexInput.attributes[i].binding < Len(bindings)
       /\ vertexInput.attributes[i].binding \notin AssignedBindings)
        => ~Emitted(i)

\* C17: a divisor whose binding index is at or above the size of the binding
\* table is ignored: it makes no access outside the table and leaves the
\* table as the binding descriptions built it.
C17_DivisorBeyondTableIgnored ==
  pc \in {"attributes", "vertexInputsDone", "crashed"} =>
    /\ UbDivisor \notin ub
    /\ bindingsBeyond = <<>>
    /\ (\A i \in DOMAIN vertexInput.divisors :
          vertexInput.divisors[i].binding >= Len(GatheredBindings))
         => bindings = GatheredBindings

\* The attribute passes the three tests of the claim.
Resolvable(attrib) ==
  /\ attrib.binding \in 0..(Len(bindings) - 1)
  /\ bindings[attrib.binding + 1].binding = attrib.binding
  /\ mapVkFormat(attrib.format, FALSE) # InvalidFormatPair

\* C18: a record is emitted for an attribute iff its binding index is inside
\* the binding table, the slot holds that binding number and the format is
\* valid for vertex input; the records are in attribute order, one per
\* attribute, with stride and inputRate of the slot as the divisors left it.
C18_EmittedIffResolvable ==
  VertexInputsDone =>
    /\ \A i \in DOMAIN vertexInput.attributes :
         Emitted(i) <=> Resolvable(vertexInput.attributes[i])
    /\ Len(descriptions) =
         Cardinality({i \in DOMAIN vertexInput.attributes :
                        Resolvable(vertexInput.attributes[i])})
    /\ \A k, l \in DOMAIN descriptions :
         k < l => descriptions[k].location < descriptions[l].location
    /\ \A k \in DOMAIN descriptions :
         \E i \in DOMAIN vertexInput.attributes :
           LET attrib == vertexInput.attributes[i]
               slot == bindings[attrib.binding + 1]
               fmt == mapVkFormat(attrib.format, FALSE)
           IN /\ Resolvable(attrib)
              /\ descriptions[k] =
                   [location |-> attrib.location, binding |-> attrib.binding,
                    offset |-> attrib.offset, stride |-> slot.stride,
                    dfmt |-> fmt.dfmt, nfmt |-> fmt.nfmt,
                    inputRate |-> slot.inputRate]

\* Two attributes, one resolvable and one not, on a binding whose input rate
\* a divisor has overridden: one record, carrying the divisor.
C18_Witness ==
  /\ VertexInputsDone
  /\ Len(vertexInput.attributes) = 2
  /\ Len(descriptions) = 1
  /\ vertexInput.hasDivisors
  /\ vertexInput.divisors # <<>>
  /\ vertexInput.divisors[1].binding = descriptions[1].binding
  /\ descriptions[1].inputRate = vertexInput.divisors[1].divisor
  /\ descriptions[1].stride # 0

\* ---------------------------------------------------------------------
\* setColorExportState.  The format list is a sequence: the entry of target
\* index t is formats[t + 1].

MaxColorTargets == 8

\* A value-initialised lgc::ColorExportFormat.
ZeroColorExportFormat ==
  [dfmt |-> "BufDataFormatInvalid", nfmt |-> "BufNumFormatUnorm",
   blendEnable |-> FALSE, blendSrcAlphaToColor |-> FALSE]

\* formats.resize(n)
ResizeFormats(list, n) ==
  IF n <= Len(list) THEN SubSeq(list, 1, n)
  ELSE list \o [i \in 1..(n - Len(list)) |-> ZeroColorExportFormat]

ColorExportFormatOf(target) ==
  LET fmt == mapVkFormat(target.format, TRUE)
  IN  [dfmt |-> fmt.dfmt, nfmt |-> fmt.nfmt,
       blendEnable |-> target.blendEnable,
       blendSrcAlphaToColor |-> target.blendSrcAlphaToColor]

SetColorTargetSkipInvalid(list, targetIndex, target) ==
  IF target.format # VK_FORMAT_UNDEFINED
       /\ mapVkFormat(target.format, TRUE).dfmt # "BufDataFormatInvalid"
    THEN [ResizeFormats(list, targetIndex + 1) EXCEPT
            ![targetIndex + 1] = ColorExportFormatOf(target)]
    ELSE list

SetColorTargetPushBack(list, targetIndex, target) ==
  IF target.format # VK_FORMAT_UNDEFINED
    THEN Append(list, ColorExportFormatOf(target))
    ELSE list

\* One iteration of the loop over the colour targets.
SetColorTarget(list, targetIndex, target) ==
  IF target.format # VK_FORMAT_UNDEFINED
    THEN [ResizeFormats(list, targetIndex + 1) EXCEPT
            ![targetIndex + 1] = ColorExportFormatOf(target)]
    ELSE list

\* The mapVkFormat calls of the loop over the colour targets, from
\* targetIndex on.
RECURSIVE ColorTargetLookups(_, _)
ColorTargetLookups(targets, targetIndex) ==
  IF ~(targetIndex < MaxColorTargets) THEN <<>>
  ELSE (IF targets[targetIndex + 1].format # VK_FORMAT_UNDEFINED
          THEN <<<<"mapVkFormat", targets[targetIndex + 1].format, TRUE>>>> ELSE <<>>)
         \o ColorTargetLookups(targets, targetIndex + 1)

\* The loop over the colour targets, from targetIndex on.
RECURSIVE SetColorTargets(_, _, _)
SetColorTargets(list, targets, targetIndex) ==
  IF ~(targetIndex < MaxColorTargets) THEN list
  ELSE SetColorTargets(SetColorTarget(list, targetIndex, targets[targetIndex + 1]),
                       targets, targetIndex + 1)

\* Inputs: every target undefined, legal for colour export, or defined but
\* legal for vertex input only; the blend flags are those of the pipeline.
TargetFormats ==
  {VK_FORMAT_UNDEFINED, VkFormatCode("VK_FORMAT_R8G8B8A8_UNORM"),
   VkFormatCode("VK_FORMAT_R64_UINT")}

CbStates ==
  {[alphaToCoverageEnable |-> blend, dualSourceBlendEnable |-> ~blend,
    target |-> [t \in 1..MaxColorTargets |->
                  [format |-> f[t], blendEnable |-> blend,
                   blendSrcAlphaToColor |-> ~blend]]] :
     f \in [1..MaxColorTargets -> TargetFormats], blend \in BOOLEAN}

InitColorExport ==
  /\ pc = "setColorExportState"
  /\ cbState \in CbStates
  /\ formats = <<>>
  /\ IdleFlatten /\ IdleFormat /\ IdleGpu /\ IdleHash /\ IdleVertexInput
  /\ IdleStages /\ IdleRun

\* setColorExportState: the loop and the call that gives the formats and the
\* two flags to the pipeline.
SetColorExportState ==
  /\ pc = "setColorExportState"
  /\ formats' = SetColorTargets(<<>>, cbState.target, 0)
  /\ callees' = callees \o ColorTargetLookups(cbState.target, 0)
  /\ calls' = Append(calls,
                <<"setColorExportState",
                  [formats |-> formats',
                   state |-> [alphaToCoverageEnable |-> cbState.alphaToCoverageEnable,
                              dualSourceBlendEnable |-> cbState.dualSourceBlendEnable]]>>)
  /\ pc' = "colorExportDone"
  /\ UNCHANGED <<flatVars, fmtVars, gpuVars, hashVars, vtxVars, cbState,
                 stageVars, runVars>>

NextColorExport == SetColorExportState

SpecColorExport == InitColorExport /\ [][NextColorExport]_vars

\* --- C13, C19 -----------------------------------------------------------

Defined(t) == cbState.target[t + 1].format # VK_FORMAT_UNDEFINED

\* Target t is defined but its format is not legal for colour export.
Illegal(t) ==
  /\ Defined(t)
  /\ mapVkFormat(cbState.target[t + 1].format, TRUE) = InvalidFormatPair

TargetIndices == 0..(MaxColorTargets - 1)

C19_UndefinedTargetHasNoEntry ==
  pc = "colorExportDone" =>
    /\ \A k \in DOMAIN formats : Defined(k - 1)
    /\ Len(formats) = Cardinality({t \in TargetIndices : Defined(t)})

\* C19 (amended): the list is indexed by target: it ends at the highest
\* defined target, a defined target's entry is its translation, and an
\* undefined target below a defined one has a zero-filled entry.
C19_UndefinedTargetZeroFilled ==
  pc = "colorExportDone" =>
    /\ \A t \in TargetIndices :
         t + 1 \in DOMAIN formats <=> \E u \in TargetIndices : u >= t /\ Defined(u)
    /\ \A k \in DOMAIN formats :
         IF Defined(k - 1)
           THEN /\ formats[k].blendEnable = cbState.target[k].blendEnable
                /\ formats[k].blendSrcAlphaToColor = cbState.target[k].blendSrcAlphaToColor
                /\ <<formats[k].dfmt, formats[k].nfmt>> =
                     <<mapVkFormat(cbState.target[k].format, TRUE).dfmt,
                       mapVkFormat(cbState.target[k].format, TRUE).nfmt>>
           ELSE formats[k] = ZeroColorExportFormat

\* Target 0 is undefined, target 1 is defined and legal, with blendEnable set:
\* the list has a zero-filled entry followed by the translation of target 1.
C19_Witness ==
  /\ pc = "colorExportDone"
  /\ ~Defined(0)
  /\ Defined(1)
  /\ ~Illegal(1)
  /\ cbState.target[2].blendEnable
  /\ \A t \in TargetIndices : t > 1 => ~Defined(t)
  /\ Len(formats) = 2
  /\ formats[1] = ZeroColorExportFormat
  /\ formats[2].dfmt = "BufDataFormat8_8_8_8"

\* --- C15, C16 -----------------------------------------------------------

\* The views into the buffer that the pipeline holds once setUserDataNodes
\* was called: the root view and the inner table view of every table node
\* that can be reached through it.
ViewsHeld ==
  IF userDataNodes.given
    THEN {[start |-> userDataNodes.start, count |-> userDataNodes.count]}
           \cup {c.node.innerTable : c \in {d \in ResolvedCells :
                                              d.node.type = "DescriptorTableVaPtr"}}
    ELSE {}

\* C15: the buffer stays allocated as long as a view into it can be used:
\* while the pipeline holds a view with at least one slot, the buffer has not
\* been released.
C15_BufferOutlivesViews ==
  (\E view \in ViewsHeld : view.count > 0) => allocated

\* C16: when the outermost setUserDataNodesTable call has returned, the
\* backward cursor is at destTable + nodes.size(), whatever the depth of the
\* forest: the assert after the copy does not fail.
C16_CursorMeetsRootEnd ==
  /\ pc \in {"assert", "done", "assertFailed"} => destInnerTable = 0 + Len(nodes)
  /\ pc # "assertFailed"

\* ---------------------------------------------------------------------
\* setPipelineState: the stage mask and setOptionsInPipeline.  A stage mask
\* is the set of its bits; shaderStageToMask(stage) is the bit of stage.

\* getLgcShaderStage: the lgc::ShaderStage of a Vkgc::ShaderStage.
getLgcShaderStage(stage) ==
  CASE stage = 0 -> "lgc::ShaderStageVertex"
    [] stage = 1 -> "lgc::ShaderStageTessControl"
    [] stage = 2 -> "lgc::ShaderStageTessEval"
    [] stage = 3 -> "lgc::ShaderStageGeometry"
    [] stage = 4 -> "lgc::ShaderStageFragment"
    [] stage = 5 -> "lgc::ShaderStageCompute"
    [] OTHER -> "lgc::ShaderStageInvalid"

\* stageMask & shaderStageToMask(stage)
HasStage(mask, stage) == stage \in mask

\* The loop of setPipelineState over stage = 0 .. ShaderStageCount - 1.
TranslateStageMask(mask) ==
  {getLgcShaderStage(stage) :
     stage \in {s \in 0..(ShaderStageCount - 1) : HasStage(mask, s)}}

ShaderOptionStagesBelowCompute(mask) ==
  [i \in 1..Cardinality({s \in 0..(ShaderStageCompute - 1) : HasStage(mask, s)}) |->
     CHOOSE s \in 0..(ShaderStageCompute - 1) :
       /\ HasStage(mask, s)
       /\ Cardinality({t \in 0..(ShaderStageCompute - 1) : HasStage(mask, t) /\ t < s}) = i - 1]

\* The stages the loop of setOptionsInPipeline over stage = 0 ..
\* ShaderStageCompute gives shader options for, in loop order.
ShaderOptionStages(mask) ==
  [i \in 1..Cardinality({s \in 0..ShaderStageCompute : HasStage(mask, s)}) |->
     CHOOSE s \in 0..ShaderStageCompute :
       /\ HasStage(mask, s)
       /\ Cardinality({t \in 0..ShaderStageCompute : HasStage(mask, t) /\ t < s}) = i - 1]

\* The flag each boolean field of nggState sets when it is true.
NggToggleFlag ==
  [enableGsUse |-> "NggFlagEnableGsUse",
   forceNonPassthrough |-> "NggFlagForceNonPassthrough",
   enableFastLaunch |-> "NggFlagEnableFastLaunch",
   enableVertexReuse |-> "NggFlagEnableVertexReuse",
   enableBackfaceCulling |-> "NggFlagEnableBackfaceCulling",
   enableFrustumCulling |-> "NggFlagEnableFrustumCulling",
   enableBoxFilterCulling |-> "NggFlagEnableBoxFilterCulling",
   enableSphereCulling |-> "NggFlagEnableSphereCulling",
   enableSmallPrimFilter |-> "NggFlagEnableSmallPrimFilter",
   enableCullDistanceCulling |-> "NggFlagEnableCullDistanceCulling"]

NggOptionsPrimShaderTableNotInverted(nggState) ==
  IF ~nggState.enableNgg
    THEN [nggFlags |-> {"NggFlagDisable"}, nggBackfaceExponent |-> 0,
          nggSubgroupSizing |-> 0, nggVertsPerSubgroup |-> 0,
          nggPrimsPerSubgroup |-> 0]
    ELSE [nggFlags |->
            {NggToggleFlag[t] : t \in {u \in DOMAIN NggToggleFlag : nggState[u]}}
              \cup (IF nggState.alwaysUsePrimShaderTable
                      THEN {"NggFlagDontAlwaysUsePrimShaderTable"} ELSE {})
              \cup (IF nggState.compactMode = "NggCompactSubgroup"
                      THEN {"NggFlagCompactSubgroup"} ELSE {}),
          nggBackfaceExponent |-> nggState.backfaceExponent,
          nggSubgroupSizing |-> nggState.subgroupSizing,
          nggVertsPerSubgroup |-> nggState.vertsPerSubgroup,
          nggPrimsPerSubgroup |-> nggState.primsPerSubgroup]

\* The NGG fields of Options, for a GFX10+ graphics pipeline.  nggFlags is
\* the set of its flags.
NggOptions(nggState) ==
  IF ~nggState.enableNgg
    THEN [nggFlags |-> {"NggFlagDisable"}, nggBackfaceExponent |-> 0,
          nggSubgroupSizing |-> 0, nggVertsPerSubgroup |-> 0,
          nggPrimsPerSubgroup |-> 0]
    ELSE [nggFlags |->
            (IF nggState.enableGsUse THEN {"NggFlagEnableGsUse"} ELSE {})
              \cup (IF nggState.forceNonPassthrough THEN {"NggFlagForceNonPassthrough"} ELSE {})
              \cup (IF nggState.alwaysUsePrimShaderTable
                      THEN {} ELSE {"NggFlagDontAlwaysUsePrimShaderTable"})
              \cup (IF nggState.compactMode = "NggCompactSubgroup"
                      THEN {"NggFlagCompactSubgroup"} ELSE {})
              \cup (IF nggState.enableFastLaunch THEN {"NggFlagEnableFastLaunch"} ELSE {})
              \cup (IF nggState.enableVertexReuse THEN {"NggFlagEnableVertexReuse"} ELSE {})
              \cup (IF nggState.enableBackfaceCulling
                      THEN {"NggFlagEnableBackfaceCulling"} ELSE {})
              \cup (IF nggState.enableFrustumCulling
                      THEN {"NggFlagEnableFrustumCulling"} ELSE {})
              \cup (IF nggState.enableBoxFilterCulling
                      THEN {"NggFlagEnableBoxFilterCulling"} ELSE {})
              \cup (IF nggState.enableSphereCulling
                      THEN {"NggFlagEnableSphereCulling"} ELSE {})
              \cup (IF nggState.enableSmallPrimFilter
                      THEN {"NggFlagEnableSmallPrimFilter"} ELSE {})
              \cup (IF nggState.enableCullDistanceCulling
                      THEN {"NggFlagEnableCullDistanceCulling"} ELSE {}),
          nggBackfaceExponent |-> nggState.backfaceExponent,
          nggSubgroupSizing |-> nggState.subgroupSizing,
          nggVertsPerSubgroup |-> nggState.vertsPerSubgroup,
          nggPrimsPerSubgroup |-> nggState.primsPerSubgroup]

\* Options options = {}: the NGG fields of value-initialised Options.
NoNggOptions ==
  [nggFlags |-> {}, nggBackfaceExponent |-> 0, nggSubgroupSizing |-> 0,
   nggVertsPerSubgroup |-> 0, nggPrimsPerSubgroup |-> 0]

PipelineOptionsNggOnAnyGfxIp(info, cl, ip) ==
  [hash |-> <<info.pipelineHash, info.cacheHash>>,
   includeDisassembly |->
     cl.EnablePipelineDump \/ cl.EnableOuts \/ info.options.includeDisassembly,
   reconfigWorkgroupLayout |-> info.options.reconfigWorkgroupLayout,
   includeIr |-> cl.IncludeLlvmIr \/ info.options.includeIr,
   shadowDescriptorTableUsage |-> info.options.shadowDescriptorTableUsage,
   shadowDescriptorTablePtrHigh |-> info.options.shadowDescriptorTablePtrHigh,
   ngg |-> IF info.graphics
             THEN NggOptions(info.nggState) ELSE NoNggOptions]

\* The Options given to Pipeline::setOptions.
PipelineOptions(info, cl, ip) ==
  [hash |-> <<info.pipelineHash, info.cacheHash>>,
   includeDisassembly |->
     cl.EnablePipelineDump \/ cl.EnableOuts \/ info.options.includeDisassembly,
   reconfigWorkgroupLayout |-> info.options.reconfigWorkgroupLayout,
   includeIr |-> cl.IncludeLlvmIr \/ info.options.includeIr,
   shadowDescriptorTableUsage |-> info.options.shadowDescriptorTableUsage,
   shadowDescriptorTablePtrHigh |-> info.options.shadowDescriptorTablePtrHigh,
   ngg |-> IF info.graphics /\ ip.major >= 10
             THEN NggOptions(info.nggState) ELSE NoNggOptions]

RegisterLimitOfAnyNonZero(limit, default) ==
  IF limit # 0 THEN limit ELSE default

\* vgprLimit and sgprLimit: the shader's limit unless it is 0 or UINT_MAX.
RegisterLimit(limit, default) ==
  IF limit # 0 /\ limit # UINT_MAX THEN limit ELSE default

\* maxThreadGroupsPerComputeUnit: the shader's value unless it is 0.
ThreadGroupLimit(limit, default) ==
  IF limit # 0 THEN limit ELSE default

LoadScalarizerThresholdGlobalFirst(opts, cl) ==
  IF cl.EnableScalarLoad
    THEN cl.ScalarThreshold
    ELSE IF opts.enableLoadScalarizer
           THEN (IF opts.scalarThreshold # 0
                   THEN opts.scalarThreshold ELSE MaxScalarThreshold)
           ELSE 0

\* loadScalarizerThreshold: 0, then -scalar-threshold under
\* -enable-load-scalarizer, then the shader's own setting.
LoadScalarizerThreshold(opts, cl) ==
  IF opts.enableLoadScalarizer
    THEN (IF opts.scalarThreshold # 0
            THEN opts.scalarThreshold ELSE MaxScalarThreshold)
    ELSE IF cl.EnableScalarLoad THEN cl.ScalarThreshold ELSE 0

WaveSizeOrSubgroupSize(opts, cl) ==
  IF opts.waveSize # 0 THEN opts.waveSize ELSE cl.SubgroupSize

\* waveSize: the shader's, whatever it is.
WaveSize(opts, cl) == opts.waveSize

\* The ShaderOptions given to Pipeline::setShaderOptions for a stage.
StageShaderOptions(infos, stage, cl) ==
  LET hash == getShaderHashCode(infos, stage)
      opts == infos[stage].options
  IN  [hash |-> <<hash.lower, hash.upper>>,
       trapPresent |-> opts.trapPresent,
       debugMode |-> opts.debugMode,
       allowReZ |-> opts.allowReZ,
       vgprLimit |-> RegisterLimit(opts.vgprLimit, cl.VgprLimit),
       sgprLimit |-> RegisterLimit(opts.sgprLimit, cl.SgprLimit),
       maxThreadGroupsPerComputeUnit |->
         ThreadGroupLimit(opts.maxThreadGroupsPerComputeUnit, cl.WavesPerEu),
       waveSize |-> WaveSize(opts, cl),
       wgpMode |-> opts.wgpMode,
       subgroupSize |-> IF ~opts.allowVaryWaveSize THEN cl.SubgroupSize ELSE 0,
       waveBreakSize |-> opts.waveBreakSize,
       loadScalarizerThreshold |-> LoadScalarizerThreshold(opts, cl),
       useSiScheduler |-> cl.EnableSiScheduler \/ opts.useSiScheduler,
       updateDescInElf |-> opts.updateDescInElf,
       unrollThreshold |-> opts.unrollThreshold]

\* The setShaderOptions calls of the loop, in order.
ShaderOptionsCalls(mask, infos, cl) ==
  [i \in DOMAIN ShaderOptionStages(mask) |->
     <<"setShaderOptions",
       [stage |-> getLgcShaderStage(ShaderOptionStages(mask)[i]),
        options |-> StageShaderOptions(infos, ShaderOptionStages(mask)[i], cl)]>>]

\* The three states given to Pipeline::setGraphicsState.
GraphicsState(info) ==
  [inputAssemblyState |->
     [topology |-> info.iaState.topology,
      patchControlPoints |-> info.iaState.patchControlPoints,
      disableVertexReuse |-> info.iaState.disableVertexReuse,
      switchWinding |-> info.iaState.switchWinding,
      enableMultiView |-> info.iaState.enableMultiView],
   viewportState |-> [depthClipEnable |-> info.vpState.depthClipEnable],
   rasterizerState |->
     [rasterizerDiscardEnable |-> info.rsState.rasterizerDiscardEnable,
      innerCoverage |-> info.rsState.innerCoverage,
      perSampleShading |-> info.rsState.perSampleShading,
      numSamples |-> info.rsState.numSamples,
      samplePatternIdx |-> info.rsState.samplePatternIdx,
      usrClipPlaneMask |-> info.rsState.usrClipPlaneMask,
      polygonMode |-> info.rsState.polygonMode,
      cullMode |-> info.rsState.cullMode,
      frontFaceClockwise |-> info.rsState.frontFace # "VK_FRONT_FACE_COUNTER_CLOCKWISE",
      depthBiasEnable |-> info.rsState.depthBiasEnable]]

\* countTrailingZeros(stageMask): the lowest stage of the mask.
FirstStage(mask) == CHOOSE s \in mask : \A t \in mask : s <= t

\* ---------------------------------------------------------------------
\* Pipeline descriptions setPipelineState is explored on.

NggStates ==
  {[enableNgg |-> on, enableGsUse |-> on, forceNonPassthrough |-> FALSE,
    alwaysUsePrimShaderTable |-> TRUE, compactMode |-> "NggCompactSubgroup",
    enableFastLaunch |-> FALSE, enableVertexReuse |-> on,
    enableBackfaceCulling |-> FALSE, enableFrustumCulling |-> on,
    enableBoxFilterCulling |-> FALSE, enableSphereCulling |-> FALSE,
    enableSmallPrimFilter |-> on, enableCullDistanceCulling |-> FALSE,
    backfaceExponent |-> 3, subgroupSizing |-> 1, vertsPerSubgroup |-> 64,
    primsPerSubgroup |-> 32] : on \in BOOLEAN}

BuildInfos ==
  {[graphics |-> g, deviceIndex |-> 1, pipelineHash |-> 7, cacheHash |-> 9,
    options |-> [includeDisassembly |-> FALSE, reconfigWorkgroupLayout |-> TRUE,
                 includeIr |-> FALSE, shadowDescriptorTableUsage |-> 1,
                 shadowDescriptorTablePtrHigh |-> 2],
    nggState |-> ngg,
    iaState |-> [deviceIndex |-> 1, topology |-> 3, patchControlPoints |-> 0,
                 disableVertexReuse |-> FALSE, switchWinding |-> FALSE,
                 enableMultiView |-> FALSE],
    vpState |-> [depthClipEnable |-> TRUE],
    rsState |-> [rasterizerDiscardEnable |-> FALSE, innerCoverage |-> FALSE,
                 perSampleShading |-> FALSE, numSamples |-> 1,
                 samplePatternIdx |-> 0, usrClipPlaneMask |-> 0,
                 polygonMode |-> 0, cullMode |-> 2,
                 frontFace |-> IF ngg.enableNgg THEN "VK_FRONT_FACE_CLOCKWISE"
                               ELSE "VK_FRONT_FACE_COUNTER_CLOCKWISE",
                 depthBiasEnable |-> FALSE]] :
     g \in BOOLEAN, ngg \in NggStates}

\* getShaderStageMask(): the compute stage alone, or graphics stages.
StageMasks(info) ==
  IF info.graphics
    THEN (SUBSET (ShaderStageVertex..ShaderStageFragment)) \ {{}}
    ELSE {{ShaderStageCompute}}

\* The user data nodes of a stage: none; one sampler; a table of one
\* sampler; a table of a table of one sampler.  The binding number of the
\* sampler tells the stages apart.
PipelineForests == {"none", "sampler", "table", "table of table"}

PipelineForest(forest, binding) ==
  CASE forest = "none" -> <<>>
    [] forest = "sampler" ->
         Layout(<<SrdNode("DescriptorSampler", 4, 0, binding)>>, 0, 0)
    [] forest = "table" ->
         Layout(<<TableNode(<<SrdNode("DescriptorSampler", 4, 0, binding)>>)>>, 0, 0)
    [] forest = "table of table" ->
         Layout(<<TableNode(<<TableNode(<<SrdNode("DescriptorSampler", 4, 0, binding)>>)>>)>>,
                0, 0)

PipelineShaderInfos(mask, forest) ==
  [s \in ShaderStageVertex..ShaderStageCompute |->
     IF s \in mask
       THEN ShaderInfo([lower |-> s + 1, upper |-> s % 2], ModuleData(<<s, 1>>),
                       PipelineForest(forest, s + 1),
                       <<RangeValue(0, s + 1, 1, <<11, 12, 13, 14>>)>>)
       ELSE EmptyShaderInfo]

\* No vertex input; one binding with a divisor and an attribute on it or on
\* a binding that is not described; the same with the divisor at the index
\* equal to the table size.
PipelineVertexInputs ==
  {NoVertexInput}
    \cup {[present |-> TRUE,
           bindings |-> <<[binding |-> 0, stride |-> 4,
                           inputRate |-> VK_VERTEX_INPUT_RATE_INSTANCE]>>,
           hasDivisors |-> TRUE,
           divisors |-> <<[binding |-> b, divisor |-> 3]>>,
           attributes |-> <<[location |-> 0, binding |-> a, offset |-> 0,
                             format |-> VkFormatCode("VK_FORMAT_R64_UINT")]>>] :
            b \in 0..1, a \in 0..1}

PipelineCbStates ==
  {c \in CbStates :
     /\ c.alphaToCoverageEnable
     /\ \A t \in 3..MaxColorTargets : c.target[t].format = VK_FORMAT_UNDEFINED
     /\ c.target[1].format = VK_FORMAT_UNDEFINED
     /\ c.target[2].format # VK_FORMAT_UNDEFINED}

PipelineGfxIps ==
  {[major |-> 9, minor |-> 0, stepping |-> 0], [major |-> 10, minor |-> 1, stepping |-> 0]}

InitPipeline ==
  /\ pc = "setPipelineState"
  /\ run = 1
  /\ firstRun = NoRun
  /\ calls = <<>>
  /\ callees = <<>>
  /\ clOpts = DefaultClOpts
  /\ buildInfo \in BuildInfos
  /\ stageMask \in StageMasks(buildInfo)
  /\ \E forest \in PipelineForests \ {"none"} :
       shaderInfos = PipelineShaderInfos(stageMask, forest)
  /\ vertexInput \in (IF buildInfo.graphics THEN PipelineVertexInputs ELSE {NoVertexInput})
  /\ cbState \in (IF buildInfo.graphics THEN PipelineCbStates ELSE {NoCbState})
  /\ gfxIp \in PipelineGfxIps
  /\ gpuName = <<>>
  /\ nameAbbr = Null
  /\ hashStage = 0
  /\ shaderHash = NoHash
  /\ lgcStageMask = {}
  /\ bindings = <<>>
  /\ bindingsBeyond = <<>>
  /\ descriptions = <<>>
  /\ formats = <<>>
  /\ IdleFlatten
  /\ IdleFormat

pipeInputs == <<fmtVars, gpuVars, hashVars, vertexInput, cbState, stageMask,
                buildInfo, clOpts>>

\* setPipelineState, lines 187-193: the stage mask is translated and given
\* to the pipeline.
SetShaderStageMask ==
  /\ pc = "setPipelineState"
  /\ lgcStageMask' = TranslateStageMask(stageMask)
  /\ calls' = Append(calls, <<"setShaderStageMask", lgcStageMask'>>)
  /\ UNCHANGED callees
  /\ pc' = "setOptionsInPipeline"
  /\ UNCHANGED <<flatVars, pipeInputs, bindings, bindingsBeyond, descriptions,
                 formats, run, firstRun>>

\* setOptionsInPipeline: setOptions, then setShaderOptions for each stage of
\* the mask.
SetOptionsInPipeline ==
  /\ pc = "setOptionsInPipeline"
  /\ calls' = Append(calls, <<"setOptions", PipelineOptions(buildInfo, clOpts, gfxIp)>>)
                \o ShaderOptionsCalls(stageMask, shaderInfos, clOpts)
  /\ UNCHANGED callees
  /\ pc' = "setUserDataInPipeline"
  /\ UNCHANGED <<flatVars, pipeInputs, lgcStageMask, bindings, bindingsBeyond,
                 descriptions, formats, run, firstRun>>

\* setUserDataInPipeline, lines 367-374: the nodes and the range values are
\* those of the first active stage.
GetUserDataOfFirstStage ==
  /\ pc = "setUserDataInPipeline"
  /\ LET shaderInfo == shaderInfos[FirstStage(stageMask)]
     IN /\ nodes' = shaderInfo.pUserDataNodes
        /\ descriptorRangeValues' = shaderInfo.pDescriptorRangeValues
  /\ callees' = Append(callees, <<"setUserDataInPipeline", FirstStage(stageMask)>>)
  /\ pc' = "start"
  /\ UNCHANGED <<immutableNodesMap, nodeCount, allocUserDataNodes, destInnerTable,
                 stack, wild, ub, carved, written, userDataNodes, allocated,
                 pipeInputs, lgcStageMask, bindings, bindingsBeyond, descriptions,
                 formats, run, firstRun, calls>>

SetPipelineStateNextCallColorExportFirst ==
  /\ pc \in {"done", "vertexInputsDone", "colorExportDone"}
  /\ pc' = CASE pc = "done" /\ buildInfo.graphics -> "setColorExportState"
             [] pc = "done" /\ ~buildInfo.graphics -> "setDeviceIndex"
             [] pc = "vertexInputsDone" -> "setGraphicsStateInPipeline"
             [] pc = "colorExportDone" -> "setVertexInputDescriptions"
  /\ UNCHANGED <<flatVars, pipeInputs, lgcStageMask, bindings, bindingsBeyond,
                 descriptions, formats, run, firstRun, calls, callees>>

\* setPipelineState, lines 199-211: what it calls after a callee returned.
SetPipelineStateNextCall ==
  /\ pc \in {"done", "vertexInputsDone", "colorExportDone"}
  /\ pc' = CASE pc = "done" /\ buildInfo.graphics -> "setVertexInputDescriptions"
             [] pc = "done" /\ ~buildInfo.graphics -> "setDeviceIndex"
             [] pc = "vertexInputsDone" -> "setColorExportState"
             [] pc = "colorExportDone" -> "setGraphicsStateInPipeline"
  /\ UNCHANGED <<flatVars, pipeInputs, lgcStageMask, bindings, bindingsBeyond,
                 descriptions, formats, run, firstRun, calls, callees>>

\* A compute pipeline: pipeline->setDeviceIndex(deviceIndex).
SetDeviceIndex ==
  /\ pc = "setDeviceIndex"
  /\ calls' = Append(calls, <<"setDeviceIndex", buildInfo.deviceIndex>>)
  /\ UNCHANGED callees
  /\ pc' = "returned"
  /\ UNCHANGED <<flatVars, pipeInputs, lgcStageMask, bindings, bindingsBeyond,
                 descriptions, formats, run, firstRun>>

\* setGraphicsStateInPipeline
SetGraphicsStateInPipeline ==
  /\ pc = "setGraphicsStateInPipeline"
  /\ calls' = calls \o <<<<"setDeviceIndex", buildInfo.iaState.deviceIndex>>,
                         <<"setGraphicsState", GraphicsState(buildInfo)>>>>
  /\ UNCHANGED callees
  /\ pc' = "returned"
  /\ UNCHANGED <<flatVars, pipeInputs, lgcStageMask, bindings, bindingsBeyond,
                 descriptions, formats, run, firstRun>>

\* setPipelineState is called a second time on the same pipeline description
\* with the same options; what the first call did is kept for comparison.
SetPipelineStateAgain ==
  /\ pc = "returned"
  /\ run = 1
  /\ firstRun' = [calls |-> calls, pc |-> pc]
  /\ callees' = <<>>
  /\ run' = 2
  /\ pc' = "setPipelineState"
  /\ calls' = <<>>
  /\ lgcStageMask' = {}
  /\ bindings' = <<>>
  /\ bindingsBeyond' = <<>>
  /\ descriptions' = <<>>
  /\ formats' = <<>>
  /\ nodes' = <<>>
  /\ descriptorRangeValues' = <<>>
  /\ immutableNodesMap' = <<>>
  /\ nodeCount' = 0
  /\ allocUserDataNodes' = <<>>
  /\ destInnerTable' = 0
  /\ stack' = <<>>
  /\ wild' = <<>>
  /\ ub' = {}
  /\ carved' = <<>>
  /\ written' = <<>>
  /\ userDataNodes' = [given |-> FALSE, start |-> 0, count |-> 0]
  /\ allocated' = FALSE
  /\ UNCHANGED <<pipeInputs>>

NextPipeline ==
  \/ SetShaderStageMask
  \/ SetOptionsInPipeline
  \/ GetUserDataOfFirstStage
  \/ NextFlatten
  \/ SetPipelineStateNextCall
  \/ NextVertexInput
  \/ NextColorExport
  \/ SetDeviceIndex
  \/ SetGraphicsStateInPipeline
  \/ SetPipelineStateAgain

SpecPipeline == InitPipeline /\ [][NextPipeline]_vars

\* ---------------------------------------------------------------------
\* Claims about setPipelineState as a whole.

\* The calls of one setter made so far.
CallsOf(setter) == {i \in DOMAIN calls : calls[i][1] = setter}

OptionsForwarded == pc \notin {"setPipelineState", "setOptionsInPipeline"}

\* C20: once setOptionsInPipeline has returned, the stage mask given to
\* setShaderStageMask has the bit of getLgcShaderStage(s) exactly for the
\* stages s of the external mask and no other bit, and setShaderOptions was
\* called once for each stage of the external mask and for no other stage.
C20_StagesTranslatedAndForwarded ==
  OptionsForwarded =>
    /\ Cardinality(CallsOf("setShaderStageMask")) = 1
    /\ \A i \in CallsOf("setShaderStageMask") :
         /\ \A s \in 0..(ShaderStageCount - 1) :
              (getLgcShaderStage(s) \in calls[i][2]) <=> (s \in stageMask)
         /\ calls[i][2] \subseteq {getLgcShaderStage(s) : s \in 0..(ShaderStageCount - 1)}
    /\ \A s \in 0..(ShaderStageCount - 1) :
         Cardinality({i \in CallsOf("setShaderOptions") :
                        calls[i][2].stage = getLgcShaderStage(s)})
           = (IF s \in stageMask THEN 1 ELSE 0)
    /\ \A i \in CallsOf("setShaderOptions") :
         \E s \in stageMask : calls[i][2].stage = getLgcShaderStage(s)

\* The options of a compute pipeline, or of a graphics pipeline of a vertex
\* and a fragment shader only, have been forwarded.
C20_Witness ==
  /\ OptionsForwarded
  /\ run = 1
  /\ \/ stageMask = {ShaderStageCompute}
     \/ stageMask = {ShaderStageVertex, ShaderStageFragment}

\* The run has ended, in a build where the assertions are compiled out as
\* they were for the first run to return.
RunEnded == pc \in {"returned", "crashed"}

NggCompactModes == {"NggCompactSubgroup", "NggCompactVertices"}

\* Every setting of the switches of nggState, with scalars that differ from
\* zero and from each other.
AllNggStates ==
  {[enableNgg |-> enable,
    enableGsUse |-> "enableGsUse" \in on,
    forceNonPassthrough |-> "forceNonPassthrough" \in on,
    alwaysUsePrimShaderTable |-> always,
    compactMode |-> compact,
    enableFastLaunch |-> "enableFastLaunch" \in on,
    enableVertexReuse |-> "enableVertexReuse" \in on,
    enableBackfaceCulling |-> "enableBackfaceCulling" \in on,
    enableFrustumCulling |-> "enableFrustumCulling" \in on,
    enableBoxFilterCulling |-> "enableBoxFilterCulling" \in on,
    enableSphereCulling |-> "enableSphereCulling" \in on,
    enableSmallPrimFilter |-> "enableSmallPrimFilter" \in on,
    enableCullDistanceCulling |-> "enableCullDistanceCulling" \in on,
    backfaceExponent |-> 3, subgroupSizing |-> 1, vertsPerSubgroup |-> 64,
    primsPerSubgroup |-> 32] :
     enable \in BOOLEAN, always \in BOOLEAN, compact \in NggCompactModes,
     on \in SUBSET (DOMAIN NggToggleFlag)}

NggBuildInfos ==
  LET info == CHOOSE b \in BuildInfos : TRUE
  IN  {[info EXCEPT !.graphics = g, !.nggState = ngg] :
         g \in BOOLEAN, ngg \in AllNggStates}

\* The state at the call of setOptionsInPipeline.
InitOptions(infos, masks, shaders, opts) ==
  /\ pc = "setOptionsInPipeline"
  /\ run = 1
  /\ firstRun = NoRun
  /\ calls = <<>>
  /\ callees = <<>>
  /\ clOpts \in opts
  /\ buildInfo \in infos
  /\ stageMask \in masks[buildInfo.graphics]
  /\ shaderInfos \in shaders[stageMask]
  /\ vertexInput = NoVertexInput
  /\ cbState = NoCbState
  /\ gfxIp \in PipelineGfxIps
  /\ gpuName = <<>>
  /\ nameAbbr = Null
  /\ hashStage = 0
  /\ shaderHash = NoHash
  /\ lgcStageMask = TranslateStageMask(stageMask)
  /\ bindings = <<>>
  /\ bindingsBeyond = <<>>
  /\ descriptions = <<>>
  /\ formats = <<>>
  /\ IdleFlatten
  /\ IdleFormat

OptionMasks ==
  [g \in BOOLEAN |-> IF g THEN {{ShaderStageVertex, ShaderStageFragment}}
                          ELSE {{ShaderStageCompute}}]

InitNggOptions ==
  InitOptions(NggBuildInfos, OptionMasks,
              [mask \in UNION {OptionMasks[g] : g \in BOOLEAN} |->
                 {PipelineShaderInfos(mask, "none")}],
              {DefaultClOpts})

NextOptions == SetOptionsInPipeline

SpecNggOptions == InitNggOptions /\ [][NextOptions]_vars

\* The Options given to setOptions, once the call is made.
OptionsGiven == calls[1][2]

OptionsSet == pc = "setUserDataInPipeline" /\ calls # <<>> /\ calls[1][1] = "setOptions"

\* C21: the options given to setOptions have every NGG field zero for a
\* compute pipeline and for hardware before generation 10; for a graphics
\* pipeline on generation 10 or later with enableNgg false the flags are
\* exactly the disable flag, and the backface exponent, the subgroup sizing
\* and the two per-subgroup counts are zero, not the input's.
C21_NggOnlyForGfx10Graphics ==
  OptionsSet =>
    /\ (~buildInfo.graphics \/ gfxIp.major < 10) => OptionsGiven.ngg = NoNggOptions
    /\ (buildInfo.graphics /\ gfxIp.major >= 10 /\ ~buildInfo.nggState.enableNgg) =>
         /\ OptionsGiven.ngg.nggFlags = {"NggFlagDisable"}
         /\ OptionsGiven.ngg.nggBackfaceExponent = 0
         /\ OptionsGiven.ngg.nggSubgroupSizing = 0
         /\ OptionsGiven.ngg.nggVertsPerSubgroup = 0
         /\ OptionsGiven.ngg.nggPrimsPerSubgroup = 0

\* A graphics pipeline before generation 10 that asks for NGG has had its
\* options set.
C21_Witness ==
  /\ OptionsSet
  /\ buildInfo.graphics
  /\ gfxIp.major < 10
  /\ buildInfo.nggState.enableNgg
  /\ buildInfo.nggState.enableGsUse

NggEnabled ==
  OptionsSet /\ buildInfo.graphics /\ gfxIp.major >= 10 /\ buildInfo.nggState.enableNgg

NggScalarsCopied ==
  /\ OptionsGiven.ngg.nggBackfaceExponent = buildInfo.nggState.backfaceExponent
  /\ OptionsGiven.ngg.nggSubgroupSizing = buildInfo.nggState.subgroupSizing
  /\ OptionsGiven.ngg.nggVertsPerSubgroup = buildInfo.nggState.vertsPerSubgroup
  /\ OptionsGiven.ngg.nggPrimsPerSubgroup = buildInfo.nggState.primsPerSubgroup

\* C22 as stated: with NGG enabled on a GFX10+ graphics pipeline the disable
\* flag is clear, the flags are those of the boolean toggles that are on, one
\* flag per toggle, and the four scalars are copied.
C22_FlagsOfTogglesThatAreOn ==
  NggEnabled =>
    /\ "NggFlagDisable" \notin OptionsGiven.ngg.nggFlags
    /\ OptionsGiven.ngg.nggFlags =
         {NggToggleFlag[t] : t \in {u \in DOMAIN NggToggleFlag : buildInfo.nggState[u]}}
    /\ NggScalarsCopied

\* C22 amended: with NGG enabled on a GFX10+ graphics pipeline the disable
\* flag is clear and the four scalars are copied; each of the ten toggles has
\* its flag set exactly when it is on, NggFlagDontAlwaysUsePrimShaderTable is
\* set exactly when alwaysUsePrimShaderTable is off, NggFlagCompactSubgroup
\* exactly when compactMode is NggCompactSubgroup, and no other flag is set.
C22_FlagsOfTwelveInputs ==
  NggEnabled =>
    /\ "NggFlagDisable" \notin OptionsGiven.ngg.nggFlags
    /\ \A t \in DOMAIN NggToggleFlag :
         (NggToggleFlag[t] \in OptionsGiven.ngg.nggFlags) <=> buildInfo.nggState[t]
    /\ ("NggFlagDontAlwaysUsePrimShaderTable" \in OptionsGiven.ngg.nggFlags)
         <=> ~buildInfo.nggState.alwaysUsePrimShaderTable
    /\ ("NggFlagCompactSubgroup" \in OptionsGiven.ngg.nggFlags)
         <=> (buildInfo.nggState.compactMode = "NggCompactSubgroup")
    /\ OptionsGiven.ngg.nggFlags \subseteq
         {NggToggleFlag[t] : t \in DOMAIN NggToggleFlag}
           \cup {"NggFlagDontAlwaysUsePrimShaderTable", "NggFlagCompactSubgroup"}
    /\ NggScalarsCopied

\* NGG is enabled with alwaysUsePrimShaderTable off, subgroup compaction,
\* and some but not all of the toggles on.
C22_Witness ==
  /\ NggEnabled
  /\ ~buildInfo.nggState.alwaysUsePrimShaderTable
  /\ buildInfo.nggState.compactMode = "NggCompactSubgroup"
  /\ buildInfo.nggState.enableGsUse
  /\ ~buildInfo.nggState.enableFastLaunch

\* ---------------------------------------------------------------------
\* setOptionsInPipeline on its own: the per-stage shader options.

\* Per-shader options: each numeric option unset (0), set, and for the
\* register limits UINT_MAX.
AllShaderOptions ==
  {[DefaultShaderOptions EXCEPT
      !.vgprLimit = vgpr, !.sgprLimit = sgpr,
      !.maxThreadGroupsPerComputeUnit = groups, !.waveSize = wave,
      !.unrollThreshold = unroll, !.allowVaryWaveSize = vary,
      !.enableLoadScalarizer = scalarize, !.scalarThreshold = threshold] :
     vgpr \in {0, 5, UINT_MAX}, sgpr \in {0, 6, UINT_MAX}, groups \in {0, 7},
     wave \in {0, 32}, unroll \in {0, 9}, vary \in BOOLEAN,
     scalarize \in BOOLEAN, threshold \in {0, 8}}

\* Process-wide options: each at its default and set on the command line.
AllClOpts ==
  {[DefaultClOpts EXCEPT
      !.VgprLimit = vgpr, !.SgprLimit = sgpr, !.WavesPerEu = waves,
      !.EnableScalarLoad = scalarize, !.ScalarThreshold = threshold,
      !.SubgroupSize = subgroup] :
     vgpr \in {0, 11}, sgpr \in {0, 12}, waves \in {0, 13},
     scalarize \in BOOLEAN, threshold \in {MaxScalarThreshold, 14},
     subgroup \in {64, 16}}

ComputeBuildInfos == {info \in BuildInfos : ~info.graphics /\ ~info.nggState.enableNgg}

InitShaderOptions ==
  InitOptions(ComputeBuildInfos, OptionMasks,
              [mask \in {{ShaderStageCompute}} |->
                 {[PipelineShaderInfos(mask, "none") EXCEPT ![ShaderStageCompute].options = o] :
                    o \in AllShaderOptions}],
              AllClOpts)

SpecShaderOptions == InitShaderOptions /\ [][NextOptions]_vars

\* The stages setShaderOptions was called for, with what each was given and
\* what the shader asked for.
ShaderOptionsGiven ==
  UNION {{[given |-> calls[i][2].options, asked |-> shaderInfos[s].options] :
            s \in {t \in stageMask : getLgcShaderStage(t) = calls[i][2].stage}} :
         i \in CallsOf("setShaderOptions")}

\* C23: a stage is given the shader's vgprLimit (sgprLimit) when that is
\* neither 0 nor UINT_MAX and -vgpr-limit (-sgpr-limit) otherwise; it is given
\* the shader's maxThreadGroupsPerComputeUnit when that is not 0 and
\* -waves-per-eu otherwise.
C23_ExplicitLimitWins ==
  \A o \in ShaderOptionsGiven :
    /\ o.given.vgprLimit =
         (IF o.asked.vgprLimit \notin {0, UINT_MAX} THEN o.asked.vgprLimit ELSE clOpts.VgprLimit)
    /\ o.given.sgprLimit =
         (IF o.asked.sgprLimit \notin {0, UINT_MAX} THEN o.asked.sgprLimit ELSE clOpts.SgprLimit)
    /\ o.given.maxThreadGroupsPerComputeUnit =
         (IF o.asked.maxThreadGroupsPerComputeUnit # 0
            THEN o.asked.maxThreadGroupsPerComputeUnit ELSE clOpts.WavesPerEu)

\* A stage whose shader sets vgprLimit to UINT_MAX and an explicit sgprLimit
\* was given its options while -vgpr-limit and -sgpr-limit were set.
C23_Witness ==
  \E o \in ShaderOptionsGiven :
    /\ o.asked.vgprLimit = UINT_MAX
    /\ o.asked.sgprLimit = 6
    /\ o.asked.maxThreadGroupsPerComputeUnit = 0
    /\ clOpts.VgprLimit = 11
    /\ clOpts.SgprLimit = 12
    /\ clOpts.WavesPerEu = 13

\* The values of the process-wide numeric options.
ClNumericValues ==
  {clOpts.VgprLimit, clOpts.SgprLimit, clOpts.WavesPerEu, clOpts.ScalarThreshold,
   clOpts.SubgroupSize}

\* C24 as stated: a stage is given the shader's waveSize (unrollThreshold)
\* when that is not 0, and the value of a process-wide option when it is 0.
C24_ZeroReplacedByDefault ==
  \A o \in ShaderOptionsGiven :
    /\ o.asked.waveSize # 0 => o.given.waveSize = o.asked.waveSize
    /\ o.asked.waveSize = 0 => o.given.waveSize \in ClNumericValues
    /\ o.asked.unrollThreshold # 0 => o.given.unrollThreshold = o.asked.unrollThreshold
    /\ o.asked.unrollThreshold = 0 => o.given.unrollThreshold \in ClNumericValues

\* C24 amended: a stage is given the shader's waveSize and unrollThreshold
\* unchanged, 0 included, whatever the process-wide options are; the
\* process-wide -subgroup-size goes to subgroupSize, and only when the shader
\* does not allow a varying wave size.
C24_CopiedUnchanged ==
  \A o \in ShaderOptionsGiven :
    /\ o.given.waveSize = o.asked.waveSize
    /\ o.given.unrollThreshold = o.asked.unrollThreshold
    /\ o.given.subgroupSize =
         (IF o.asked.allowVaryWaveSize THEN 0 ELSE clOpts.SubgroupSize)

\* A stage whose shader leaves waveSize and unrollThreshold 0 was given its
\* options while every process-wide numeric option was set to a non-zero
\* value.
C24_Witness ==
  \E o \in ShaderOptionsGiven :
    /\ o.asked.waveSize = 0
    /\ o.asked.unrollThreshold = 0
    /\ ~o.asked.allowVaryWaveSize
    /\ 0 \notin ClNumericValues

\* C25: a stage is given as load-scalarizer threshold the shader's
\* scalarThreshold when the shader enables the scalarizer with a threshold
\* other than 0, MaxScalarThreshold when it enables it with threshold 0,
\* otherwise -scalar-threshold when -enable-load-scalarizer is set, and
\* otherwise 0.
C25_ScalarizerThreshold ==
  \A o \in ShaderOptionsGiven :
    o.given.loadScalarizerThreshold =
      (CASE o.asked.enableLoadScalarizer /\ o.asked.scalarThreshold # 0 ->
              o.asked.scalarThreshold
         [] o.asked.enableLoadScalarizer /\ o.asked.scalarThreshold = 0 ->
              MaxScalarThreshold
         [] ~o.asked.enableLoadScalarizer /\ clOpts.EnableScalarLoad ->
              clOpts.ScalarThreshold
         [] OTHER -> 0)

\* A stage whose shader enables the scalarizer with threshold 8 was given its
\* options while -enable-load-scalarizer -scalar-threshold=14 was set.
C25_Witness ==
  \E o \in ShaderOptionsGiven :
    /\ o.asked.enableLoadScalarizer
    /\ o.asked.scalarThreshold = 8
    /\ clOpts.EnableScalarLoad
    /\ clOpts.ScalarThreshold = 14

\* The elements of a sequence that satisfy a test, in order.
RECURSIVE SelectFrom(_, _, _)
SelectFrom(seq, Test(_), i) ==
  IF i > Len(seq) THEN <<>>
  ELSE (IF Test(seq[i]) THEN <<seq[i]>> ELSE <<>>) \o SelectFrom(seq, Test, i + 1)

IsFlattenerRun(callee) == callee[1] = "setUserDataInPipeline"
IsAttributeLookup(callee) == callee[1] = "mapVkFormat" /\ ~callee[3]
IsColorLookup(callee) == callee[1] = "mapVkFormat" /\ callee[3]

\* The formats of a sequence of descriptions, as format table lookups.
LookupsOf(seq, forColorExport) ==
  [i \in DOMAIN seq |-> <<"mapVkFormat", seq[i].format, forColorExport>>]

HasDefinedFormat(target) == target.format # VK_FORMAT_UNDEFINED

AttributesOfPipeline ==
  IF buildInfo.graphics /\ vertexInput.present THEN vertexInput.attributes ELSE <<>>

ColorTargetsOfPipeline ==
  IF buildInfo.graphics THEN SelectFrom(cbState.target, HasDefinedFormat, 1) ELSE <<>>

\* The flattener has run once, on the nodes of the lowest stage of the mask.
FlattenerRanOnceOnLowestStage ==
  /\ SelectFrom(callees, IsFlattenerRun, 1) =
       <<<<"setUserDataInPipeline", FirstStage(stageMask)>>>>
  /\ \A s \in stageMask : FirstStage(stageMask) <= s
  /\ nodes = shaderInfos[FirstStage(stageMask)].pUserDataNodes

\* C26 as stated: when setPipelineState has returned, the flattener has run
\* once, on the nodes of the lowest stage of the mask, and the format table
\* was consulted once for each vertex attribute of the pipeline description
\* and once for each colour target with a defined format, in their order.
C26_LookupPerAttributeAndTarget ==
  pc = "returned" =>
    /\ FlattenerRanOnceOnLowestStage
    /\ SelectFrom(callees, IsAttributeLookup, 1) = LookupsOf(AttributesOfPipeline, FALSE)
    /\ SelectFrom(callees, IsColorLookup, 1) = LookupsOf(ColorTargetsOfPipeline, TRUE)

AttributeResolvesBinding(attrib) ==
  /\ attrib.binding < Len(GatheredBindings)
  /\ GatheredBindings[attrib.binding + 1].binding = attrib.binding

\* C26 amended: when setPipelineState has returned, the flattener has run
\* once, on the nodes of the lowest stage of the mask, and the format table
\* was consulted once for each vertex attribute whose binding index is inside
\* the binding table and whose slot holds that binding number, never for
\* another attribute, and once for each colour target with a defined format.
C26_LookupPerResolvedAttributeAndTarget ==
  pc = "returned" =>
    /\ FlattenerRanOnceOnLowestStage
    /\ SelectFrom(callees, IsAttributeLookup, 1) =
         LookupsOf(SelectFrom(AttributesOfPipeline, AttributeResolvesBinding, 1), FALSE)
    /\ SelectFrom(callees, IsColorLookup, 1) = LookupsOf(ColorTargetsOfPipeline, TRUE)

\* setPipelineState has returned for a graphics pipeline of more than one
\* stage, without a vertex shader, whose only attribute is on a binding that
\* is not described.
C26_Witness ==
  /\ pc = "returned"
  /\ run = 1
  /\ buildInfo.graphics
  /\ ShaderStageVertex \notin stageMask
  /\ Cardinality(stageMask) > 1
  /\ vertexInput.present
  /\ \E i \in DOMAIN vertexInput.attributes :
       ~AttributeResolvesBinding(vertexInput.attributes[i])

\* ---------------------------------------------------------------------
\* C27, C28

\* The stores into a slot of the buffer, in order.
StoresInto(addr) == {i \in DOMAIN written : written[i].addr = addr}

\* C27: during one flattening no slot is stored into by two binding nodes, no
\* node of a nested table is stored into the root region
\* [base, base + nodes.size()), and when the root view is handed to
\* setUserDataNodes the last store into each of its slots was that of the
\* root node of the same index.
C27_EverySlotWrittenOnce ==
  /\ \A i, j \in DOMAIN written : written[i].addr = written[j].addr => i = j
  /\ \A i \in DOMAIN written :
       Len(written[i].path) > 1 => written[i].addr \notin 0..(Len(nodes) - 1)
  /\ pc = "done" =>
       \A k \in 0..(Len(nodes) - 1) :
         /\ StoresInto(k) # {}
         /\ \A i \in StoresInto(k) :
              (\A j \in StoresInto(k) : j <= i) => written[i].path = <<k>>

\* The setters called so far, in order.
SettersCalled == [i \in DOMAIN calls |-> calls[i][1]]

\* The setters setPipelineState calls for the pipeline description, in order.
\* setGraphicsStateInPipeline calls setDeviceIndex before setGraphicsState.
SettersExpected ==
  <<"setShaderStageMask", "setOptions">>
    \o [i \in 1..Cardinality(stageMask) |-> "setShaderOptions"]
    \o <<"setUserDataNodes">>
    \o (IF buildInfo.graphics
          THEN (IF vertexInput.present THEN <<"setVertexInputDescriptions">> ELSE <<>>)
                 \o <<"setColorExportState", "setDeviceIndex", "setGraphicsState">>
          ELSE <<"setDeviceIndex">>)

IsPrefix(s, t) == Len(s) <= Len(t) /\ s = SubSeq(t, 1, Len(s))

\* C28: the setters called so far are, in this order, setShaderStageMask,
\* setOptions, setShaderOptions once per stage of the mask in stage order,
\* setUserDataNodes, and then for a graphics pipeline
\* setVertexInputDescriptions (only when there is a vertex input description),
\* setColorExportState and (after setDeviceIndex) setGraphicsState, for a
\* compute pipeline setDeviceIndex and none of the three graphics setters;
\* when setPipelineState has returned all of them have been called.
C28_SettersInFixedOrder ==
  /\ IsPrefix(SettersCalled, SettersExpected)
  /\ pc = "returned" => SettersCalled = SettersExpected
  /\ \A i, j \in CallsOf("setShaderOptions") :
       i < j => \E s, t \in stageMask :
                  /\ s < t
                  /\ calls[i][2].stage = getLgcShaderStage(s)
                  /\ calls[j][2].stage = getLgcShaderStage(t)
  /\ ~buildInfo.graphics =>
       CallsOf("setVertexInputDescriptions") \cup CallsOf("setColorExportState")
         \cup CallsOf("setGraphicsState") = {}

\* setPipelineState has returned for a graphics pipeline of three stages with
\* a vertex input description.
C28_Witness ==
  /\ pc = "returned"
  /\ buildInfo.graphics
  /\ Cardinality(stageMask) = 3
  /\ vertexInput.present
====
